---- MODULE Spec2Model ----
(***************************************************************************)
(* Caching, retry and aggregation layer of the equity-cloud-platform API:  *)
(*   services/finnhub_service.py  FinnhubService (TTL cache, retry loop)   *)
(*   services/news_service.py     NewsService and the module-level cache   *)
(*   function_app.py              the watchlist-news handler               *)
(*                                                                         *)
(* Time is counted in ticks of a quarter of a second, the resolution of    *)
(* the retry jitter (random.uniform(0, 0.25)); strings are TLA+ strings    *)
(* and Python's f-strings and str.join are string concatenation (\o).      *)
(***************************************************************************)
EXTENDS Integers, Sequences, FiniteSets, TLC

VARIABLES
    svc,        \* the service object this behaviour drives: "finnhub" or "news"
    now,        \* time.time(), in ticks
    calls,      \* operations started so far (bounds the exploration)
    ticks,      \* idle clock advances so far (bounds the exploration)
    api_key,    \* FinnhubService.api_key / NewsService.api_key (FINNHUB_API_KEY)
    max_retries,\* FinnhubService._max_retries (FINNHUB_MAX_RETRIES)
    fhCache,    \* FinnhubService._cache : key -> (expires_at, value)
    pc,         \* position of the _get_json call: "idle", "attempt", "sleep"
    call,       \* the arguments of the current (or last) _get_json call
    attempt,    \* the loop variable of _get_json
    last_exc,   \* the local last_exc of _get_json
    response,   \* what session.get gave last: a response or an exception
    all429,     \* every earlier attempt of the current call was answered 429
    events,     \* what the current (or last) _get_json call did, in order
    outcome,    \* how the last _get_json call ended
    newsCache,  \* news_service._news_cache : key -> (expires_at, articles)
    newsOut,    \* what the last NewsService call did and how it ended
    aggregates, \* the aggregate requests get_watchlist_news has computed
    wl,         \* the stored watchlist: its symbols and its updated_utc
    updates,    \* watchlist updates so far (bounds the exploration)
    kIn,        \* the arguments of two _cache_key computations
    kOut,       \* the keys they gave
    nIn,        \* the arguments and provider answers of NewsService calls
    cIn,        \* a GET /catalysts request and the world it meets
    cOut,       \* the answer to it
    sIn,        \* a StockService request and the provider's answers to it
    sOut,       \* the answer to it, and what was logged on the way
    mIn,        \* the curated macro calendar (data/macro_calendar.json)
    mSeen,      \* the macro events that calls have returned so far
    file,       \* the watchlist store: .localdata/watchlists.json or the Watchlists table
    proc,       \* the concurrent requests on the watchlist store
    rq,         \* successive requests, each with its own FinnhubService
    ws          \* a watchlist under successive create / update operations

fhVars == <<api_key, max_retries, fhCache, pc, call, attempt, last_exc, response, all429,
           events, outcome>>
newsVars == <<newsCache, newsOut, aggregates, wl, updates>>
clockVars == <<svc, now, calls, ticks>>
keyVars == <<kIn, kOut>>
moreVars == <<sIn, sOut, mIn, mSeen, file, proc, rq, ws>>
fnVars == <<nIn, cIn, cOut, moreVars>>

---------------------------------------------------------------------------
(* Bounds of the exploration *)

MaxCalls == 2
MaxTicks == 1
MaxUpdates == 1
MaxParams == 3

(* Units and program constants *)

TicksPerSecond == 4
BackoffCapSeconds == 5
DefaultTtlSeconds == 60
DefaultMaxRetries == 3
CACHE_TTL_SECONDS == 300
CompanyNewsLimit == 10

None == "None"

\* no exception (the initial value of last_exc)
NoExc == [type |-> "None", status |-> 0]

---------------------------------------------------------------------------
(* Python helpers *)

Min(a, b) == IF a <= b THEN a ELSE b
Max(a, b) == IF a >= b THEN a ELSE b

RECURSIVE Pow2(_)
Pow2(n) == IF n <= 0 THEN 1 ELSE 2 * Pow2(n - 1)

\* The strings of the model in Python's str order (code points), which is
\* the order sorted() uses on the parameter names.
StrOrder ==
    <<"", "AAPL", "AAPL earnings", "AAPL earnings (amc)", "AAPL earnings (bmo)", "Alpha",
      "Beta", "DE", "Delta", "Energy", "Gamma", "MSFT", "MSFT earnings",
      "MSFT earnings (amc)", "MSFT earnings (bmo)", "Technology", "US", "Zeta",
      "from", "international", "symbol", "to", "token">>

StrRank(s) == CHOOSE i \in 1..Len(StrOrder) : StrOrder[i] = s

StrLess(a, b) == StrRank(a) < StrRank(b)

\* sorted(S) for a set of strings
RECURSIVE sorted(_)
sorted(S) ==
    IF S = {} THEN <<>>
    ELSE LET m == CHOOSE a \in S : \A b \in S \ {a} : StrLess(a, b)
         IN <<m>> \o sorted(S \ {m})

\* sep.join(parts)
RECURSIVE join(_, _)
join(sep, parts) ==
    IF Len(parts) = 0 THEN ""
    ELSE IF Len(parts) = 1 THEN parts[1]
    ELSE parts[1] \o sep \o join(sep, Tail(parts))

\* A dict is the sequence of its <<key, value>> items in insertion order.
dict_keys(d) == {d[i][1] : i \in 1..Len(d)}

dict_get(d, k) == LET i == CHOOSE j \in 1..Len(d) : d[j][1] = k IN d[i][2]

\* d[k] = v : replaces the value in place, or appends a new item
dict_set(d, k, v) ==
    IF k \in dict_keys(d)
    THEN [i \in 1..Len(d) |-> IF d[i][1] = k THEN <<k, v>> ELSE d[i]]
    ELSE Append(d, <<k, v>>)

\* {k: v for k, v in d.items() if k != name}
dict_without(d, name) == SelectSeq(d, LAMBDA it : it[1] # name)

---------------------------------------------------------------------------
(* FinnhubService: cache *)

\* a key that keeps every parameter, the token included
_cache_key_with_token(path, params) ==
    LET keys  == sorted(dict_keys(params))
        parts == [i \in 1..Len(keys) |-> keys[i] \o "=" \o dict_get(params, keys[i])]
    IN  path \o "?" \o join("&", parts)

\* FinnhubService._cache_key
_cache_key(path, params) ==
    LET safe  == dict_without(params, "token")
        keys  == sorted(dict_keys(safe))
        parts == [i \in 1..Len(keys) |-> keys[i] \o "=" \o dict_get(safe, keys[i])]
    IN  path \o "?" \o join("&", parts)

\* a comparison that keeps an entry alive at its expiry instant
fh_expired_late(expires_at, t) == expires_at < t

\* The comparison of FinnhubService._cache_get: an entry is dead once
\* expires_at <= now.
fh_expired(expires_at, t) == expires_at <= t

\* FinnhubService._cache_get: the value it returns
_cache_get(cache, key, t) ==
    IF key \notin DOMAIN cache THEN None
    ELSE IF fh_expired(cache[key].expires_at, t) THEN None
    ELSE cache[key].value

\* FinnhubService._cache_get: the map it leaves (an expired entry is popped)
cache_after_get(cache, key, t) ==
    IF key \in DOMAIN cache /\ fh_expired(cache[key].expires_at, t)
    THEN [k \in DOMAIN cache \ {key} |-> cache[k]]
    ELSE cache

\* a store that ignores the ttl_seconds <= 0 test
_cache_set_always(cache, key, value, ttl_seconds, t) ==
    (key :> [expires_at |-> t + ttl_seconds * TicksPerSecond, value |-> value]) @@ cache

\* a store that drops the key's entry when ttl_seconds <= 0
_cache_set_evicting(cache, key, value, ttl_seconds, t) ==
    IF ttl_seconds <= 0 THEN [k \in DOMAIN cache \ {key} |-> cache[k]]
    ELSE (key :> [expires_at |-> t + ttl_seconds * TicksPerSecond, value |-> value]) @@ cache

\* FinnhubService._cache_set
_cache_set(cache, key, value, ttl_seconds, t) ==
    IF ttl_seconds <= 0 THEN cache
    ELSE (key :> [expires_at |-> t + ttl_seconds * TicksPerSecond, value |-> value]) @@ cache

\* What a lookup of key at time t meets in a cache map (for the record of a
\* call; the code's own tests are fh_expired and news_fresh).
Found(cache, key, t) ==
    IF key \notin DOMAIN cache THEN "absent"
    ELSE IF cache[key].expires_at > t THEN "fresh"
    ELSE "expired"

---------------------------------------------------------------------------
(* FinnhubService._get_json *)

\* The requests of the callers: get_company_profile2 and get_earnings_calendar
ReqProfile(sym) ==
    [path |-> "/stock/profile2", params |-> << <<"symbol", sym>> >>]

ReqEarnings ==
    [path |-> "/calendar/earnings",
     params |-> << <<"from", "2024-01-01">>, <<"to", "2024-01-31">>,
                   <<"international", "true">> >>]

Requests == {ReqProfile("AAPL"), ReqEarnings}

\* cache_ttl_seconds as configured (FINNHUB_CACHE_TTL_SECONDS may be 0 or negative)
TtlChoices == {0, DefaultTtlSeconds}

\* what session.get does: a response with a status code, or an exception
StatusCodes == {200, 404, 429, 500}
NetErrors == {"Timeout", "ConnectionError", "RequestException"}

\* response.json(): a JSON document; null is None, "{}" is the empty object
Payloads == {None, "{}", "P1", "P2"}

\* error = "": a response with that status code (and, for a 200, that body);
\* otherwise the exception session.get raised
NoResponse == [status |-> 0, error |-> "", body |-> None]

Responses ==
    {[status |-> 200, error |-> "", body |-> b] : b \in Payloads}
        \cup {[status |-> s, error |-> "", body |-> None] : s \in StatusCodes \ {200}}
        \cup {[status |-> 0, error |-> e, body |-> None] : e \in NetErrors}

\* random.uniform(0, 0.25), in ticks
Jitters == {0, 1}

\* status 429 or 500..599: the transient HTTPError raised by hand
is_transient(status) == status = 429 \/ (500 <= status /\ status <= 599)

\* response.raise_for_status(): HTTPError for 400..599
raises_for_status(status) == 400 <= status /\ status <= 599

\* the exceptions of the first except clause (the retried ones)
retried_exc(e) == e.type \in {"Timeout", "ConnectionError", "HTTPError"}

\* a break one attempt too early
is_last_attempt_early(a, retries) == a >= retries - 2

\* the break of the first except clause: no sleep after the last attempt
is_last_attempt(a, retries) == a >= retries - 1

\* range(0, max(self._max_retries, 1))
loop_bound(retries) == Max(retries, 1)

\* sleep_for = min(5.0, 0.5 * 2**attempt + jitter), in ticks
sleep_for(a, jitter) ==
    Min(BackoffCapSeconds * TicksPerSecond, (TicksPerSecond \div 2) * Pow2(a) + jitter)

\* the tail of _get_json: raise last_exc, or RuntimeError
Returned(v) == [kind |-> "return", value |-> v, exc |-> NoExc]
Raised(e) == [kind |-> "raise", value |-> None, exc |-> e]
NoOutcome == [kind |-> "none", value |-> None, exc |-> NoExc]

final_raise(exc) ==
    IF exc # NoExc THEN Raised(exc)
    ELSE Raised([type |-> "RuntimeError", status |-> 0])

\* an assignment that keeps the first exception of the call
caught_first(prev, e) == IF prev # NoExc THEN prev ELSE e

\* last_exc = e, in both except clauses
caught(prev, e) == e

\* get_company_profile2 on what its _get_json call gave: "if not data" raises ValueError
profile2_result(out) ==
    IF out.kind = "return" /\ out.value \in {None, "{}"}
    THEN Raised([type |-> "ValueError", status |-> 0])
    ELSE out

\* the entry of _get_json: _require_key, the key, the cache lookup
GetJsonStart(req, ttl) ==
    /\ svc = "finnhub"
    /\ pc = "idle"
    /\ calls < MaxCalls
    /\ calls' = calls + 1
    /\ events' = <<>>
    /\ attempt' = 0
    /\ last_exc' = NoExc
    /\ response' = NoResponse
    /\ all429' = TRUE
    /\ IF api_key = ""
       THEN /\ call' = [path |-> req.path, params |-> req.params, key |-> None, ttl |-> ttl,
                         at |-> now, found |-> "absent", cache0 |-> fhCache]
            /\ outcome' = Raised([type |-> "ValueError", status |-> 0])
            /\ UNCHANGED <<fhCache, pc>>
       ELSE LET params == dict_set(req.params, "token", api_key)
                key    == _cache_key(req.path, params)
                cached == _cache_get(fhCache, key, now)
            IN  /\ call' = [path |-> req.path, params |-> params, key |-> key, ttl |-> ttl,
                             at |-> now, found |-> Found(fhCache, key, now),
                             cache0 |-> fhCache]
                /\ fhCache' = cache_after_get(fhCache, key, now)
                /\ IF cached # None
                   THEN /\ outcome' = Returned(cached)
                        /\ pc' = "idle"
                   ELSE /\ outcome' = NoOutcome
                        /\ pc' = "attempt"
    /\ UNCHANGED <<fnVars, keyVars, svc, now, ticks, api_key, max_retries, newsVars>>

\* one iteration of the loop up to the sleep: session.get and what follows it
GetJsonAttempt(resp) ==
    /\ pc = "attempt"
    /\ events' = Append(events, "net")
    /\ response' = resp
    /\ IF resp.error = "" /\ ~is_transient(resp.status) /\ ~raises_for_status(resp.status)
       THEN \* data = response.json(); self._cache_set(...); return data
            /\ fhCache' = _cache_set(fhCache, call.key, resp.body, call.ttl, now)
            /\ outcome' = Returned(resp.body)
            /\ pc' = "idle"
            /\ attempt' = 0
            /\ last_exc' = NoExc
            /\ UNCHANGED all429
       ELSE LET e == IF resp.error = ""
                     THEN [type |-> "HTTPError", status |-> resp.status]
                     ELSE [type |-> resp.error, status |-> 0]
            IN  /\ UNCHANGED fhCache
                /\ IF retried_exc(e) /\ ~is_last_attempt(attempt, max_retries)
                   THEN /\ pc' = "sleep"
                        /\ last_exc' = caught(last_exc, e)
                        /\ all429' = (all429 /\ resp.error = "" /\ resp.status = 429)
                        /\ outcome' = NoOutcome
                        /\ UNCHANGED attempt
                   ELSE \* break, then raise last_exc; the locals are gone
                        /\ pc' = "idle"
                        /\ outcome' = final_raise(caught(last_exc, e))
                        /\ attempt' = 0
                        /\ last_exc' = NoExc
                        /\ UNCHANGED all429
    /\ UNCHANGED <<fnVars, keyVars, svc, now, calls, ticks, api_key, max_retries, call, newsVars>>

\* time.sleep(sleep_for) and the loop's next iteration
GetJsonSleep(jitter) ==
    /\ pc = "sleep"
    /\ now' = now + sleep_for(attempt, jitter)
    /\ events' = Append(events, "sleep")
    /\ IF attempt + 1 < loop_bound(max_retries)
       THEN /\ pc' = "attempt"
            /\ attempt' = attempt + 1
            /\ outcome' = NoOutcome
            /\ UNCHANGED last_exc
       ELSE \* the loop is over: raise last_exc; the locals are gone
            /\ pc' = "idle"
            /\ outcome' = final_raise(last_exc)
            /\ attempt' = 0
            /\ last_exc' = NoExc
    /\ UNCHANGED <<fnVars, keyVars, svc, calls, ticks, api_key, max_retries, fhCache, call, response, all429,
                   newsVars>>


---------------------------------------------------------------------------
(* NewsService *)

\* seq[:n]
py_take(seq, n) ==
    IF n >= 0 THEN SubSeq(seq, 1, Min(n, Len(seq)))
    ELSE SubSeq(seq, 1, Max(0, Len(seq) + n))

\* s.strip().upper() on the symbols of the model
strip_upper(s) ==
    CASE s = "aapl"   -> "AAPL"
      [] s = " msft " -> "MSFT"
      [] s = "msft"   -> "MSFT"
      [] s = " "      -> ""
      [] OTHER        -> s

\* datetime.utcnow().replace(microsecond=0).isoformat() + "Z": the whole
\* second, written here as its number
iso_utc_now(t) == t \div TicksPerSecond

\* a provider item / an article; symbol = None: no "symbol" key
Article(h, dt) == [headline |-> h, datetime |-> dt, symbol |-> None]

NewsBodies ==
    { <<Article("h1", 10)>>,
      <<Article("h1", 10), Article("", 30), Article("h2", 20)>> }

NewsResponses ==
    {[status |-> 200, error |-> "", body |-> b] : b \in NewsBodies}
        \cup {[status |-> s, error |-> "", body |-> <<>>] : s \in {404, 429, 500}}
        \cup {[status |-> 0, error |-> e, body |-> <<>>] : e \in {"Timeout"}}

\* the keys of _news_cache: the 2-tuple (symbol, days) of get_company_news and
\* the 6-tuple of get_watchlist_news, which never equal one another
SymbolKey(sym, days) ==
    [kind |-> "symbol", symbols |-> <<sym>>, days |-> days, per_symbol_limit |-> 0,
     total_limit |-> 0, symbol_filter |-> "", cache_version |-> -1]

AggregationKey(uniq, days, per_symbol_limit, total_limit, filter, version) ==
    [kind |-> "aggregation", symbols |-> uniq, days |-> days,
     per_symbol_limit |-> per_symbol_limit, total_limit |-> total_limit,
     symbol_filter |-> filter, cache_version |-> version]

\* the test of both lookups: cached and cached[0] > now
news_fresh(cache, key, t) == key \in DOMAIN cache /\ cache[key].expires_at > t

\* _news_cache[key] = (now + _CACHE_TTL_SECONDS, result)
news_store(cache, key, value, t) ==
    (key :> [expires_at |-> t + CACHE_TTL_SECONDS * TicksPerSecond, value |-> value]) @@ cache

NewsReturned(v, n) == [kind |-> "return", value |-> v, exc |-> NoExc, net |-> n]
NewsRaised(type, n) ==
    [kind |-> "raise", value |-> <<>>, exc |-> [type |-> type, status |-> 0], net |-> n]

\* a comprehension that keeps every item
all_news(news_data) == news_data

\* the list comprehension of get_company_news: items with a headline
filtered_news(news_data) == SelectSeq(news_data, LAMBDA item : item.headline # "")

\* list.sort(key=datetime, reverse=True): stable, descending
RECURSIVE insert_desc(_, _)
insert_desc(seq, x) ==
    IF Len(seq) = 0 THEN <<x>>
    ELSE IF Head(seq).datetime >= x.datetime
         THEN <<Head(seq)>> \o insert_desc(Tail(seq), x)
         ELSE <<x>> \o seq

\* a sort that leaves the list as it is
keep_order(seq) == seq

RECURSIVE sort_desc(_)
sort_desc(seq) ==
    IF Len(seq) = 0 THEN <<>>
    ELSE insert_desc(sort_desc(SubSeq(seq, 1, Len(seq) - 1)), seq[Len(seq)])

\* the except clauses of get_company_news
news_error(resp) ==
    IF resp.error = ""
    THEN IF resp.status = 404 THEN "ValueError"
         ELSE IF resp.status = 429 THEN "UpstreamRateLimitedError"
         ELSE "UpstreamUnavailableError"
    ELSE "UpstreamUnavailableError"

\* the success path of get_company_news: the result is stored and returned
news_success(cache, cache_key, result, t) ==
    [cache |-> news_store(cache, cache_key, result, t), out |-> NewsReturned(result, 1)]

\* get_company_news after its two checks, with its cache key
company_news_keyed(cache, t, cache_key, resp) ==
    IF news_fresh(cache, cache_key, t)
    THEN [cache |-> cache, out |-> NewsReturned(cache[cache_key].value, 0)]
    ELSE IF resp.error = "" /\ ~raises_for_status(resp.status)
    THEN news_success(cache, cache_key,
                      py_take(sort_desc(filtered_news(resp.body)), CompanyNewsLimit), t)
    ELSE [cache |-> cache, out |-> NewsRaised(news_error(resp), 1)]

\* NewsService.get_company_news at time t with the provider answering resp:
\* the cache it leaves and how it ends
get_company_news(cache, t, symbol, days, resp) ==
    IF symbol = ""
    THEN [cache |-> cache, out |-> NewsRaised("ValueError", 0)]
    ELSE IF api_key = ""
    THEN [cache |-> cache, out |-> NewsRaised("DependencyNotConfiguredError", 0)]
    ELSE company_news_keyed(cache, t, SymbolKey(strip_upper(symbol), days), resp)

\* the first loop of get_watchlist_news
RECURSIVE uniq_symbols(_, _)
uniq_symbols(symbols, seen) ==
    IF Len(symbols) = 0 THEN <<>>
    ELSE LET sym == strip_upper(Head(symbols))
         IN  IF sym = "" \/ sym \in seen
             THEN uniq_symbols(Tail(symbols), seen)
             ELSE <<sym>> \o uniq_symbols(Tail(symbols), seen \cup {sym})

\* a loop over all the items of a symbol
tagged_all(items, sym, per_symbol_limit) ==
    [i \in 1..Len(items) |-> [items[i] EXCEPT !.symbol = sym]]

\* for it in items[: max(1, per_symbol_limit)]: merged = dict(it); merged["symbol"] = sym
tagged(items, sym, per_symbol_limit) ==
    LET top == py_take(items, Max(1, per_symbol_limit))
    IN  [i \in 1..Len(top) |-> [top[i] EXCEPT !.symbol = sym]]

\* the second loop of get_watchlist_news from its i-th symbol on (fetch_loop),
\* and its body once get_company_news has ended as r (fetch_body): an exception
\* of get_company_news leaves the loop and the call
RECURSIVE fetch_loop(_, _, _, _, _, _, _, _)
RECURSIVE fetch_body(_, _, _, _, _, _, _, _)
fetch_loop(cache, t, uniq, i, days, per_symbol_limit, resps, acc) ==
    IF i > Len(uniq)
    THEN [cache |-> cache, aggregated |-> acc.aggregated, asked |-> acc.asked,
          net |-> acc.net, failed |-> NoExc]
    ELSE fetch_body(get_company_news(cache, t, uniq[i], days, resps[i]),
                    t, uniq, i, days, per_symbol_limit, resps, acc)

fetch_body(r, t, uniq, i, days, per_symbol_limit, resps, acc) ==
    IF r.out.kind = "raise"
    THEN [cache |-> r.cache, aggregated |-> acc.aggregated,
          asked |-> Append(acc.asked, uniq[i]), net |-> acc.net + r.out.net,
          failed |-> r.out.exc]
    ELSE fetch_loop(r.cache, t, uniq, i + 1, days, per_symbol_limit, resps,
                    [aggregated |-> acc.aggregated
                         \o tagged(r.out.value, uniq[i], per_symbol_limit),
                     asked |-> Append(acc.asked, uniq[i]), net |-> acc.net + r.out.net])

\* a normalisation that cuts before it filters
selected_symbols_cut_first(symbols, symbol_filter, max_symbols) ==
    IF symbol_filter # ""
    THEN SelectSeq(py_take(uniq_symbols(symbols, {}), max_symbols),
                   LAMBDA x : x = strip_upper(symbol_filter))
    ELSE py_take(uniq_symbols(symbols, {}), max_symbols)

\* the normalisation of get_watchlist_news: uniq after the filter and the cut
selected_symbols(symbols, symbol_filter, max_symbols) ==
    py_take(IF symbol_filter # ""
            THEN SelectSeq(uniq_symbols(symbols, {}),
                           LAMBDA x : x = strip_upper(symbol_filter))
            ELSE uniq_symbols(symbols, {}),
            max_symbols)

\* tuple(sorted(uniq))
sorted_tuple(uniq) == sorted({uniq[i] : i \in 1..Len(uniq)})

\* the end of get_watchlist_news once the loop has ended as f
aggregate_end(f, aggregation_key, t, total_limit) ==
    IF f.failed # NoExc
    THEN [cache |-> f.cache, key |-> aggregation_key, hit |-> FALSE, asked |-> f.asked,
          out |-> [kind |-> "raise", value |-> <<>>, exc |-> f.failed, net |-> f.net]]
    ELSE [cache |-> news_store(f.cache, aggregation_key,
                               py_take(sort_desc(f.aggregated), Max(1, total_limit)), t),
          key |-> aggregation_key, hit |-> FALSE, asked |-> f.asked,
          out |-> NewsReturned(py_take(sort_desc(f.aggregated), Max(1, total_limit)),
                               f.net)]

\* get_watchlist_news from its aggregation-cache lookup on
aggregate_keyed(cache, t, uniq, aggregation_key, days, per_symbol_limit, total_limit, resps) ==
    IF news_fresh(cache, aggregation_key, t)
    THEN [cache |-> cache, key |-> aggregation_key, hit |-> TRUE, asked |-> <<>>,
          out |-> NewsReturned(cache[aggregation_key].value, 0)]
    ELSE aggregate_end(fetch_loop(cache, t, uniq, 1, days, per_symbol_limit, resps,
                                  [aggregated |-> <<>>, asked |-> <<>>, net |-> 0]),
                       aggregation_key, t, total_limit)

\* an aggregation key without the version token
aggregation_key_unversioned(uniq, days, per_symbol_limit, total_limit, symbol_filter, cache_version) ==
    AggregationKey(sorted_tuple(uniq), days, per_symbol_limit, total_limit,
                   strip_upper(symbol_filter), -1)

\* the aggregation key of get_watchlist_news
aggregation_key_of(uniq, days, per_symbol_limit, total_limit, symbol_filter, cache_version) ==
    AggregationKey(sorted_tuple(uniq), days, per_symbol_limit, total_limit,
                   strip_upper(symbol_filter), cache_version)

get_watchlist_news_of(cache, t, uniq, days, per_symbol_limit, total_limit, symbol_filter, cache_version, resps) ==
    aggregate_keyed(cache, t, uniq,
                    aggregation_key_of(uniq, days, per_symbol_limit, total_limit,
                                       symbol_filter, cache_version),
                    days, per_symbol_limit, total_limit, resps)

\* NewsService.get_watchlist_news at time t, the provider answering resps[i] for
\* the i-th symbol fetched
get_watchlist_news(cache, t, symbols, days, per_symbol_limit, total_limit, max_symbols, symbol_filter, cache_version, resps) ==
    get_watchlist_news_of(cache, t, selected_symbols(symbols, symbol_filter, max_symbols),
                          days, per_symbol_limit, total_limit, symbol_filter,
                          cache_version, resps)

\* the except clauses of the handlers: RuntimeError (the three NewsService
\* errors) is 503, ValueError is 400 in watchlist_news
watchlist_news_status(out) ==
    IF out.kind = "return" THEN 200
    ELSE IF out.exc.type \in {"DependencyNotConfiguredError", "UpstreamRateLimitedError",
                              "UpstreamUnavailableError"} THEN 503
    ELSE IF out.exc.type = "ValueError" THEN 400
    ELSE 500

NoNewsOut ==
    [op |-> "none", key |-> SymbolKey("", 0), hit |-> FALSE, asked |-> <<>>,
     http |-> 0, out |-> [kind |-> "none", value |-> <<>>, exc |-> NoExc, net |-> 0],
     at |-> 0, found |-> "absent", cache0 |-> <<>>, version |-> -1]

\* the symbols of GET /news/{symbol}
NewsSymbols == {"AAPL", "aapl"}

DefaultDays == 7

\* the except clauses of get_news_function: ValueError is 404, the rest 500
news_status(out) ==
    IF out.kind = "return" THEN 200
    ELSE IF out.exc.type = "ValueError" THEN 404
    ELSE 500

\* the call of get_company_news has ended as r
CompanyNewsEnds(r, symbol) ==
    /\ newsCache' = r.cache
    /\ newsOut' = [op |-> "get_company_news",
                   key |-> SymbolKey(strip_upper(symbol), DefaultDays),
                   hit |-> (r.out.kind = "return" /\ r.out.net = 0),
                   asked |-> <<>>, http |-> news_status(r.out), out |-> r.out,
                   at |-> now,
                   found |-> Found(newsCache, SymbolKey(strip_upper(symbol), DefaultDays), now),
                   cache0 |-> newsCache, version |-> -1]
    /\ UNCHANGED aggregates

\* the call of get_watchlist_news has ended as r
WatchlistNewsEnds(r) ==
    /\ newsCache' = r.cache
    /\ newsOut' = [op |-> "get_watchlist_news", key |-> r.key, hit |-> r.hit,
                   asked |-> r.asked, http |-> watchlist_news_status(r.out), out |-> r.out,
                   at |-> now, found |-> Found(newsCache, r.key, now),
                   cache0 |-> newsCache, version |-> wl.updated_utc]
    /\ aggregates' =
           IF r.out.kind = "return" /\ ~r.hit
           THEN aggregates \cup {[symbols |-> r.asked, per_symbol_limit |-> r.key.per_symbol_limit,
                                  version |-> wl.updated_utc]}
           ELSE aggregates

\* get_news_function: NewsService().get_company_news(symbol)
GetCompanyNews(symbol, resp) ==
    /\ svc = "news"
    /\ calls < MaxCalls
    /\ calls' = calls + 1
    /\ CompanyNewsEnds(get_company_news(newsCache, now, symbol, DefaultDays, resp), symbol)
    /\ UNCHANGED <<fnVars, keyVars, svc, now, ticks, fhVars, wl, updates>>

\* the query parameters of GET /watchlists/{id}/news
SymbolParams == {"", "msft"}
PerSymbolParams == {0, 5}
DefaultTotal == 40
DefaultMaxSymbols == 25

\* watchlist_news: the watchlist is read, the limits are clamped, and
\* NewsService().get_watchlist_news is called with cache_version = wl.updated_utc
WatchlistNews(symbol, per_symbol, resps) ==
    /\ svc = "news"
    /\ calls < MaxCalls
    /\ calls' = calls + 1
    /\ IF symbol # "" /\ strip_upper(symbol) # ""
          /\ strip_upper(symbol) \notin {strip_upper(wl.items[i]) : i \in 1..Len(wl.items)}
       THEN /\ newsOut' = [NoNewsOut EXCEPT !.op = "watchlist_news", !.http = 400,
                                           !.at = now, !.cache0 = newsCache]
            /\ UNCHANGED <<newsCache, aggregates>>
       ELSE WatchlistNewsEnds(
                get_watchlist_news(newsCache, now, wl.items,
                                   Max(1, Min(DefaultDays, 30)),
                                   Max(1, Min(per_symbol, 10)),
                                   Max(1, Min(DefaultTotal, 200)),
                                   Max(1, Min(DefaultMaxSymbols, 100)),
                                   symbol, wl.updated_utc, resps))
    /\ UNCHANGED <<fnVars, keyVars, svc, now, ticks, fhVars, wl, updates>>

\* WatchlistService.update_watchlist(name, symbols=None): a rename; the items
\* are kept and updated_utc is refreshed
UpdateWatchlist ==
    /\ svc = "news"
    /\ updates < MaxUpdates
    /\ updates' = updates + 1
    /\ wl' = [wl EXCEPT !.updated_utc = iso_utc_now(now)]
    /\ UNCHANGED <<fnVars, keyVars, svc, now, calls, ticks, fhVars, newsCache, newsOut, aggregates>>

---------------------------------------------------------------------------
(* NewsService as functions of their arguments and of the provider's answers *)

\* a provider answer with more items than get_company_news keeps, one of them
\* without a headline, in no particular order
LongBody ==
    [i \in 1..(CompanyNewsLimit + 2) |->
        Article(IF i = 3 THEN "" ELSE "h1", (i * 5) % (CompanyNewsLimit + 3))]

ShortBody == <<Article("h1", 10), Article("", 30), Article("h2", 20)>>

TiedBody == <<Article("h3", 20), Article("h4", 20), Article("h5", 5)>>

Ok200(body) == [status |-> 200, error |-> "", body |-> body]

\* the provider's answers to the fetches of one get_watchlist_news call
FetchAnswers == {Ok200(ShortBody), Ok200(TiedBody), [status |-> 429, error |-> "", body |-> <<>>]}

\* the provider's answers to a get_company_news call
CompanyAnswers == {Ok200(LongBody), Ok200(ShortBody), [status |-> 404, error |-> "", body |-> <<>>]}

\* the symbols argument of get_watchlist_news
SymbolLists == { <<"aapl", "AAPL", "msft">>, <<" msft ", "", "AAPL">> }

FilterArgs == {"", "msft", " "}
MaxSymbolsArgs == {1, DefaultMaxSymbols}
PerSymbolArgs == {0, 1, 5}
TotalArgs == {0, 2, DefaultTotal}

NewsInputs ==
    [symbols : SymbolLists, symbol_filter : FilterArgs, max_symbols : MaxSymbolsArgs,
     per_symbol_limit : PerSymbolArgs, total_limit : TotalArgs,
     resps : [1..2 -> FetchAnswers], symbol : {"aapl", " msft "}, resp : CompanyAnswers]

NoNewsInput ==
    [symbols |-> <<>>, symbol_filter |-> "", max_symbols |-> 0, per_symbol_limit |-> 0,
     total_limit |-> 0, resps |-> <<>>, symbol |-> "", resp |-> NoResponse]

\* NewsService().get_watchlist_news(symbols, days, per_symbol_limit, total_limit,
\* max_symbols, symbol_filter, cache_version)
CallWatchlistNews ==
    /\ svc = "news"
    /\ calls < MaxCalls
    /\ calls' = calls + 1
    /\ WatchlistNewsEnds(
           get_watchlist_news(newsCache, now, nIn.symbols, DefaultDays, nIn.per_symbol_limit,
                              nIn.total_limit, nIn.max_symbols, nIn.symbol_filter,
                              wl.updated_utc, nIn.resps))
    /\ UNCHANGED <<fnVars, keyVars, svc, now, ticks, fhVars, wl, updates>>

\* NewsService().get_company_news(symbol)
CallCompanyNews ==
    /\ svc = "news"
    /\ calls < MaxCalls
    /\ calls' = calls + 1
    /\ CompanyNewsEnds(get_company_news(newsCache, now, nIn.symbol, DefaultDays, nIn.resp),
                       nIn.symbol)
    /\ UNCHANGED <<fnVars, keyVars, svc, now, ticks, fhVars, wl, updates>>

---------------------------------------------------------------------------
(* CatalystsService and MacroCalendarService *)

\* A date YYYY-MM-DD is the number YYYYMMDD (0: no date); a timestamp
\* YYYY-MM-DDTHH:MM:SSZ is the pair of its date and its time of day HHMM, so
\* that the order of the pairs is the order of the strings.
NoTime == <<0, 0>>

\* Python's truth value of an Optional[str]
truthy(x) == x # None /\ x # ""

\* utc_time[:10]
_parse_date_only(utc_time) == utc_time[1]

\* f"{date_str}T00:00:00Z"
midnight(date_str) == <<date_str, 0>>

\* s.strip() on the titles of the model
title_strip(s) == IF s = " Alpha " THEN "Alpha" ELSE s

\* s.strip().upper() on the countries of the model
country_strip_upper(s) == IF s = "us" THEN "US" ELSE s

\* macro_calendar_service._safe_list on a list of strings
_safe_list(value) == SelectSeq(value, LAMBDA v : v # "")

\* the fields of a CatalystEvent that the service sets from its inputs
CatalystEvent(id, type, title, utc_time, date, symbol, country, impact, sectors) ==
    [id |-> id, type |-> type, title |-> title, utc_time |-> utc_time, date |-> date,
     symbol |-> symbol, country |-> country, impact |-> impact, sectors |-> sectors]

\* a timestamp as the text it is (the date and the time of day, in digits)
utc_text(utc_time) == ToString(utc_time[1]) \o "T" \o ToString(utc_time[2])

\* x or ''
or_empty(x) == IF truthy(x) THEN x ELSE ""

\* a key that names the sectors too
stable_key_with_sectors(utc_time, title, country, impact, sectors) ==
    utc_text(utc_time) \o "|" \o title \o "|" \o or_empty(country) \o "|" \o or_empty(impact)
        \o "|" \o ToString(sectors)

\* stable_key = f"{utc_time}|{title}|{country or ''}|{impact or ''}"
stable_key(utc_time, title, country, impact, sectors) ==
    utc_text(utc_time) \o "|" \o title \o "|" \o or_empty(country) \o "|" \o or_empty(impact)

\* str(uuid.uuid5(uuid.NAMESPACE_URL, name)): a hash of the name, the same
\* for the same name and taken to differ for different names
uuid5(name) == "uuid5(" \o name \o ")"

\* str(uuid.uuid4()): a random id, named here by the event it is drawn for
\* (the symbol and the number of entries of the symbol still to come)
uuid4(symbol, left) == "uuid4(" \o symbol \o "," \o ToString(left) \o ")"

\* a sort key without the title
key_le_time_only(a, b) ==
    \/ a.utc_time[1] < b.utc_time[1]
    \/ a.utc_time[1] = b.utc_time[1] /\ a.utc_time[2] <= b.utc_time[2]

\* the sort key (e.utc_time, e.title): a is not after b
key_le(a, b) ==
    \/ a.utc_time[1] < b.utc_time[1]
    \/ a.utc_time[1] = b.utc_time[1] /\ a.utc_time[2] < b.utc_time[2]
    \/ a.utc_time = b.utc_time /\ ~StrLess(b.title, a.title)

\* events.sort(key=lambda e: (e.utc_time, e.title)): stable, ascending
RECURSIVE insert_by_key(_, _)
insert_by_key(seq, x) ==
    IF Len(seq) = 0 THEN <<x>>
    ELSE IF key_le(Head(seq), x)
         THEN <<Head(seq)>> \o insert_by_key(Tail(seq), x)
         ELSE <<x>> \o seq

RECURSIVE sort_by_key(_)
sort_by_key(seq) ==
    IF Len(seq) = 0 THEN <<>>
    ELSE insert_by_key(sort_by_key(SubSeq(seq, 1, Len(seq) - 1)), seq[Len(seq)])

\* the loop of MacroCalendarService.get_events over the raw items
RECURSIVE macro_events(_, _, _)
macro_events(raw, from_date, to_date) ==
    IF Len(raw) = 0 THEN <<>>
    ELSE LET item == Head(raw)
             utc_time == item.utc_time
             title == title_strip(item.title)
             date == _parse_date_only(utc_time)
         IN  IF utc_time = NoTime \/ title = "" THEN macro_events(Tail(raw), from_date, to_date)
             ELSE IF date = 0 THEN macro_events(Tail(raw), from_date, to_date)
             ELSE IF date < from_date \/ date > to_date
                  THEN macro_events(Tail(raw), from_date, to_date)
             ELSE <<CatalystEvent(uuid5(stable_key(utc_time, title,
                                                   IF truthy(item.country) THEN item.country ELSE None,
                                                   IF truthy(item.impact) THEN item.impact ELSE None,
                                                   _safe_list(item.sectors))),
                                  "macro", title, utc_time, date, None,
                                  IF truthy(item.country) THEN item.country ELSE None,
                                  IF truthy(item.impact) THEN item.impact ELSE None,
                                  _safe_list(item.sectors))>>
                      \o macro_events(Tail(raw), from_date, to_date)

\* MacroCalendarService.get_events
get_events(raw, from_date, to_date) == sort_by_key(macro_events(raw, from_date, to_date))

\* no watchlist (None)
NoWatchlist == [id |-> None, items |-> <<>>]

\* sorted({(i.country or "").strip().upper() for i in watchlist.items if i.country})
watchlist_countries(watchlist) ==
    sorted({country_strip_upper(watchlist.items[i].country) :
              i \in {j \in 1..Len(watchlist.items) : truthy(watchlist.items[j].country)}})

\* sorted({(i.sector or "").strip() for i in watchlist.items if i.sector})
watchlist_sectors(watchlist) ==
    sorted({watchlist.items[i].sector :
              i \in {j \in 1..Len(watchlist.items) : truthy(watchlist.items[j].sector)}})

\* catalysts_service._collect_watchlist_axes
_collect_watchlist_axes(watchlist) ==
    <<watchlist_countries(watchlist), watchlist_sectors(watchlist)>>

\* WatchlistService.get_watchlist: user u1 owns the watchlist w1
get_watchlist(user_id, watchlist_id, items) ==
    IF user_id = "u1" /\ watchlist_id = "w1" THEN [id |-> "w1", items |-> items]
    ELSE NoWatchlist

\* the events of one symbol's earnings entries (the inner loop of get_catalysts)
RECURSIVE earnings_events(_, _)
earnings_events(item, earnings) ==
    IF Len(earnings) = 0 THEN <<>>
    ELSE LET e == Head(earnings)
             date_str == e.date
             title == IF truthy(e.hour)
                      THEN item.symbol \o " earnings" \o " (" \o e.hour \o ")"
                      ELSE item.symbol \o " earnings"
         IN  IF date_str = 0 THEN earnings_events(item, Tail(earnings))
             ELSE <<CatalystEvent(uuid4(item.symbol, Len(earnings)),
                                  "earnings", title, midnight(date_str), date_str,
                                  item.symbol, item.country, None,
                                  IF truthy(item.sector) THEN <<item.sector>> ELSE <<>>)>>
                      \o earnings_events(item, Tail(earnings))

\* an except clause that only logs
after_failure_logged(providers) == providers

\* the except clause of the earnings loop
after_failure(providers) == [providers EXCEPT !.earnings = "degraded"]

\* the earnings loop of get_catalysts from its i-th item on; fetched[i] is
\* what get_earnings_calendar does for the i-th item
RECURSIVE earnings_loop(_, _, _, _)
earnings_loop(items, fetched, i, acc) ==
    IF i > Len(items) THEN acc
    ELSE IF fetched[i].kind = "raise"
    THEN earnings_loop(items, fetched, i + 1,
                       [events |-> acc.events, providers |-> after_failure(acc.providers),
                        asked |-> Append(acc.asked, items[i].symbol)])
    ELSE earnings_loop(items, fetched, i + 1,
                       [events |-> acc.events \o earnings_events(items[i], fetched[i].value),
                        providers |-> acc.providers,
                        asked |-> Append(acc.asked, items[i].symbol)])

\* a test that filters also when the watchlist has no country
macro_dropped_any_set(watchlist, countries, e) ==
    /\ watchlist # NoWatchlist
    /\ truthy(e.country)
    /\ Len(e.country) = 2
    /\ \A i \in 1..Len(countries) : countries[i] # e.country

\* a test that filters by sector too
macro_dropped_by_sector(watchlist, countries, e) ==
    \/ /\ watchlist # NoWatchlist
       /\ countries # <<>>
       /\ truthy(e.country)
       /\ Len(e.country) = 2
       /\ \A i \in 1..Len(countries) : countries[i] # e.country
    \/ /\ watchlist # NoWatchlist
       /\ watchlist_sectors(watchlist) # <<>>
       /\ \A i \in 1..Len(e.sectors), j \in 1..Len(watchlist_sectors(watchlist)) :
              e.sectors[i] # watchlist_sectors(watchlist)[j]

\* the test of the macro loop: the event is skipped
macro_dropped(watchlist, countries, e) ==
    /\ watchlist # NoWatchlist
    /\ countries # <<>>
    /\ truthy(e.country)
    /\ Len(e.country) = 2
    /\ \A i \in 1..Len(countries) : countries[i] # e.country

\* a status that does not look at the calendar
macro_status_fixed(curated_macro) == "curated"

\* providers["macro"] after get_events
macro_status(curated_macro) == IF curated_macro = <<>> THEN "curated_empty" ELSE "curated"

\* providers["earnings"] before the loop, and without a watchlist
earnings_start(watchlist) == IF watchlist # NoWatchlist THEN "ok" ELSE "skipped_no_watchlist"

CatalystsReturned(watchlist, axes, sorted_events, providers, asked) ==
    [kind |-> "return", error |-> "", watchlist_id |-> watchlist.id, countries |-> axes[1],
     sectors |-> axes[2], events |-> sorted_events, providers |-> providers, asked |-> asked]

CatalystsRaised(error) ==
    [kind |-> "raise", error |-> error, watchlist_id |-> None, countries |-> <<>>,
     sectors |-> <<>>, events |-> <<>>, providers |-> [earnings |-> "", macro |-> ""],
     asked |-> <<>>]

\* get_catalysts from the earnings loop on: loop is what the earnings part
\* gave, curated_macro what get_events gave
catalysts_response(watchlist, axes, loop, curated_macro) ==
    CatalystsReturned(
        watchlist, axes,
        sort_by_key(loop.events
                      \o SelectSeq(curated_macro,
                                   LAMBDA e : ~macro_dropped(watchlist, axes[1], e))),
        [earnings |-> loop.providers.earnings, macro |-> macro_status(curated_macro)],
        loop.asked)

\* get_catalysts once the watchlist is resolved (or there is none)
catalysts_of(watchlist, axes, fetched, raw, from_date, to_date) ==
    catalysts_response(
        watchlist, axes,
        earnings_loop(watchlist.items, fetched, 1,
                      [events |-> <<>>,
                       providers |-> [earnings |-> earnings_start(watchlist),
                                      macro |-> "curated"],
                       asked |-> <<>>]),
        get_events(raw, from_date, to_date))

\* get_catalysts with the watchlist the lookup gave
catalysts_found(watchlist, fetched, raw, from_date, to_date) ==
    IF watchlist # NoWatchlist
    THEN catalysts_of(watchlist, _collect_watchlist_axes(watchlist), fetched, raw,
                      from_date, to_date)
    ELSE CatalystsRaised("Watchlist not found")

\* CatalystsService.get_catalysts; items are the stored items of watchlist w1
get_catalysts(from_date, to_date, user_id, watchlist_id, items, fetched, raw) ==
    IF truthy(user_id) /\ truthy(watchlist_id)
    THEN catalysts_found(get_watchlist(user_id, watchlist_id, items), fetched, raw,
                         from_date, to_date)
    ELSE catalysts_of(NoWatchlist, <<<<>>, <<>>>>, fetched, raw, from_date, to_date)

\* get_user_context_from_headers: no user, or a UserContext with its user_id
NoUser == [present |-> FALSE, user_id |-> None]
UserContext(user_id) == [present |-> TRUE, user_id |-> user_id]

Users == {NoUser, UserContext(""), UserContext("u1"), UserContext("u2")}
WatchlistIds == {"", "w1", "w9"}

Item(symbol, country, sector) == [symbol |-> symbol, country |-> country, sector |-> sector]

ItemLists ==
    { <<Item("AAPL", "US", "Technology"), Item("MSFT", "us", None)>>,
      <<Item("AAPL", None, "Technology"), Item("MSFT", None, None)>>,
      <<>> }

\* an entry of the provider's earningsCalendar
Entry(date, hour) == [date |-> date, hour |-> hour]

EarningsReturned(v) == [kind |-> "return", value |-> v]
EarningsRaised == [kind |-> "raise", value |-> <<>>]

\* what get_earnings_calendar does for one symbol
EarningsOutcomes ==
    { EarningsRaised,
      EarningsReturned(<<Entry(20240201, None)>>),
      EarningsReturned(<<Entry(0, "bmo"), Entry(20240203, "amc"), Entry(20240201, None)>>) }

\* an item of data/macro_calendar.json
Raw(utc_time, title, country, impact, sectors) ==
    [utc_time |-> utc_time, title |-> title, country |-> country, impact |-> impact,
     sectors |-> sectors]

Calendars ==
    { <<>>,
      <<Raw(<<20240301, 0>>, "Zeta", "US", "high", <<>>)>>,
      <<Raw(<<20240201, 0>>, "Zeta", "US", "high", <<"Macro">>),
        Raw(<<20240201, 0>>, " Alpha ", "DE", None, <<"Energy", "">>),
        Raw(<<20240202, 1230>>, "Beta", None, "", <<>>),
        Raw(<<20240202, 0>>, "Gamma", "Euro Area", "low", <<"Energy">>),
        Raw(NoTime, "Delta", "US", None, <<>>),
        Raw(<<20240203, 0>>, "", "US", None, <<>>),
        Raw(<<20240301, 0>>, "Zeta", "US", "high", <<>>),
        Raw(<<20240202, 0>>, "Gamma", "Euro Area", "low", <<>>)>> }

FromDate == 20240201
ToDate == 20240229

CatalystsInputs ==
    [user : Users, watchlist_id : WatchlistIds, items : ItemLists,
     fetched : [1..2 -> EarningsOutcomes], raw : Calendars]

NoCatalystsInput ==
    [user |-> NoUser, watchlist_id |-> "", items |-> <<>>, fetched |-> <<>>, raw |-> <<>>]

NoCatalystsOut ==
    [http |-> 0, body |-> CatalystsRaised("")]

\* the except clauses of the catalysts handler: ValueError is 404
catalysts_status(r) == IF r.kind = "return" THEN 200 ELSE 404

\* the catalysts handler: GET /catalysts?watchlistId&from&to
Catalysts ==
    /\ cOut = NoCatalystsOut
    /\ IF truthy(cIn.watchlist_id) /\ ~cIn.user.present
       THEN cOut' = [http |-> 401, body |-> CatalystsRaised("Authentication required")]
       ELSE LET r == get_catalysts(FromDate, ToDate, cIn.user.user_id, cIn.watchlist_id,
                                   cIn.items, cIn.fetched, cIn.raw)
            IN  cOut' = [http |-> catalysts_status(r), body |-> r]
    /\ UNCHANGED <<cIn, nIn, moreVars, keyVars, clockVars, fhVars, newsVars>>

---------------------------------------------------------------------------
(* Successive calls of get_events and get_catalysts over one calendar *)

MaxMacroCalls == 3

\* the date ranges of the calls: February 2024, and its first two days
MacroRanges == {<<FromDate, ToDate>>, <<FromDate, FromDate + 1>>}

\* what a call tells of a macro event it returned
Seen(n, via, range, watchlist_id, e) ==
    [call |-> n, via |-> via, range |-> range, watchlist_id |-> watchlist_id, e |-> e]

\* MacroCalendarService().get_events(from_date, to_date)
CallGetEvents(range) ==
    /\ svc = "macro"
    /\ calls < MaxMacroCalls
    /\ calls' = calls + 1
    /\ LET r == get_events(mIn, range[1], range[2])
       IN  mSeen' = mSeen \cup {Seen(calls + 1, "get_events", range, None, r[j]) : j \in DOMAIN r}
    /\ UNCHANGED <<nIn, cIn, cOut, sIn, sOut, mIn, file, proc, rq, ws, keyVars, svc, now, ticks,
                   fhVars, newsVars>>

\* CatalystsService().get_catalysts(from_date, to_date, user_id, watchlist_id)
CallGetCatalysts(range, user, watchlist_id, items, fetched) ==
    /\ svc = "macro"
    /\ calls < MaxMacroCalls
    /\ calls' = calls + 1
    /\ LET r == get_catalysts(range[1], range[2], user.user_id, watchlist_id, items, fetched, mIn)
       IN  mSeen' = mSeen \cup {Seen(calls + 1, "get_catalysts", range, r.watchlist_id, r.events[j]) :
                                   j \in {k \in DOMAIN r.events : r.events[k].type = "macro"}}
    /\ UNCHANGED <<nIn, cIn, cOut, sIn, sOut, mIn, file, proc, rq, ws, keyVars, svc, now, ticks,
                   fhVars, newsVars>>

---------------------------------------------------------------------------
(* StockService and its handlers, as functions of a request and of the     *)
(* provider's answers. A date is a day number (the order of the numbers is *)
(* the order of the date strings); the text of a number, as the provider   *)
(* sends it, is Text(n), in hundredths.                                    *)

SmaKeep == 60

Text(n) == [text |-> TRUE, n |-> n]
NotANumber == Text(-1)

\* float(t) raises ValueError / gives the number
float_raises(t) == t.n < 0
float(t) == t.n

\* None and a number, as values of one JSON field
Null == [null |-> TRUE, v |-> 0]
Num(v) == [null |-> FALSE, v |-> v]

\* symbol.upper() on the symbols of the model
symbol_upper(s) == IF s = "ibm" THEN "IBM" ELSE s

base_url == "https://www.alphavantage.co/query"

\* the query string requests builds from a params dict
query_of(params) ==
    join("&", [i \in 1..Len(params) |-> params[i][1] \o "=" \o params[i][2]])

quote_params(symbol, key) ==
    <<<<"function", "GLOBAL_QUOTE">>, <<"symbol", symbol>>, <<"apikey", key>>>>

sma_params(symbol, period, key) ==
    <<<<"function", "SMA">>, <<"symbol", symbol>>, <<"interval", "daily">>,
      <<"time_period", ToString(period)>>, <<"series_type", "close">>, <<"apikey", key>>>>

daily_params(symbol, key) ==
    <<<<"function", "TIME_SERIES_DAILY">>, <<"symbol", symbol>>, <<"outputsize", "compact">>,
      <<"apikey", key>>>>

Exc(type, msg) == [type |-> type, msg |-> msg]
NoStockExc == Exc("", "")

\* str(e) of the exceptions of requests: raise_for_status names the url of
\* the response, a connection error the path and query it could not reach
http_error_msg(status, params) ==
    ToString(status) \o " Error for url: " \o base_url \o "?" \o query_of(params)

net_error_msg(error, params) ==
    IF error = "ConnectionError"
    THEN "Max retries exceeded with url: /query?" \o query_of(params)
    ELSE "Read timed out."

\* requests.get(base_url, params) followed by response.raise_for_status()
requests_get(params, answer) ==
    IF answer.error # ""
    THEN [ok |-> FALSE, exc |-> Exc(answer.error, net_error_msg(answer.error, params)),
          body |-> <<>>]
    ELSE IF raises_for_status(answer.status)
    THEN [ok |-> FALSE, exc |-> Exc("HTTPError", http_error_msg(answer.status, params)),
          body |-> <<>>]
    ELSE [ok |-> TRUE, exc |-> NoStockExc, body |-> answer.body]

\* how a StockService call ends: net counts the requests.get calls, log
\* holds the lines it logged
StockReturned(v, log, net) ==
    [kind |-> "return", value |-> v, exc |-> NoStockExc, log |-> log, net |-> net]
StockRaised(exc, log, net) ==
    [kind |-> "raise", value |-> <<>>, exc |-> exc, log |-> log, net |-> net]

KeyMissing == Exc("ValueError", "ALPHA_VANTAGE_API_KEY is missing")

\* StockService.get_quote; the body is data.get("Global Quote", {})
get_quote_of(symbol, r) ==
    IF ~r.ok THEN StockRaised(r.exc, <<"API Connection Error: " \o r.exc.msg>>, 1)
    ELSE IF r.body = <<>>
    THEN StockRaised(Exc("ValueError", "Symbol '" \o symbol \o "' not found"),
                     <<"No data found for symbol: " \o symbol>>, 1)
    ELSE IF float_raises(r.body.price)
    THEN StockRaised(Exc("ValueError", "could not convert string to float"), <<>>, 1)
    ELSE StockReturned([symbol |-> r.body.symbol, price |-> float(r.body.price)], <<>>, 1)

get_quote(key, symbol, answer) ==
    IF key = "" THEN StockRaised(KeyMissing, <<>>, 0)
    ELSE get_quote_of(symbol, requests_get(quote_params(symbol, key), answer))

\* sorted(technical_data.keys(), reverse=True)[:60], as a set
newest(dates, n) == {d \in dates : Cardinality({k \in dates : k > d}) < n}

latest_of(dates) == CHOOSE d \in dates : \A k \in dates : k <= d

\* one turn of the loop of get_sma: the body is technical_data, a map from
\* dates to the text of the SMA
sma_series_of(symbol, period, r) ==
    IF ~r.ok
    THEN [raised |-> FALSE, values |-> <<>>, latest |-> Null,
          log |-> <<"SMA" \o ToString(period) \o " API Error: " \o r.exc.msg>>]
    ELSE IF DOMAIN r.body = {}
    THEN [raised |-> FALSE, values |-> <<>>, latest |-> Null,
          log |-> <<"No SMA" \o ToString(period) \o " data for " \o symbol>>]
    ELSE IF float_raises(r.body[latest_of(DOMAIN r.body)])
    THEN [raised |-> TRUE, values |-> <<>>, latest |-> Null, log |-> <<>>]
    ELSE [raised |-> FALSE,
          values |-> [d \in newest(DOMAIN r.body, SmaKeep) |-> r.body[d]],
          latest |-> Num(float(r.body[latest_of(DOMAIN r.body)])),
          log |-> <<>>]

sma_series(key, symbol, period, answer) ==
    sma_series_of(symbol, period, requests_get(sma_params(symbol, period, key), answer))

\* get_sma after both turns of its loop
get_sma_of(s50, s200) ==
    IF s50.raised
    THEN StockRaised(Exc("ValueError", "could not convert string to float"), s50.log, 1)
    ELSE IF s200.raised
    THEN StockRaised(Exc("ValueError", "could not convert string to float"), s50.log, 2)
    ELSE StockReturned([sma50_values |-> s50.values, sma50 |-> s50.latest,
                        sma200_values |-> s200.values, sma200 |-> s200.latest],
                       s50.log \o s200.log, 2)

\* StockService.get_sma
get_sma(key, symbol, a50, a200) ==
    IF key = "" THEN StockRaised(KeyMissing, <<>>, 0)
    ELSE get_sma_of(sma_series(key, symbol, 50, a50), sma_series(key, symbol, 200, a200))

\* history.sort(key=lambda x: x["date"]): stable, ascending
RECURSIVE insert_by_date(_, _)
insert_by_date(seq, x) ==
    IF Len(seq) = 0 THEN <<x>>
    ELSE IF Head(seq).date <= x.date
         THEN <<Head(seq)>> \o insert_by_date(Tail(seq), x)
         ELSE <<x>> \o seq

RECURSIVE sort_by_date(_)
sort_by_date(seq) ==
    IF Len(seq) = 0 THEN <<>>
    ELSE insert_by_date(sort_by_date(SubSeq(seq, 1, Len(seq) - 1)), seq[Len(seq)])

\* the points of the dict ts_data, in its order; an entry whose close is not
\* a number is skipped
RECURSIVE points_of(_)
points_of(ts_data) ==
    IF Len(ts_data) = 0 THEN <<>>
    ELSE IF float_raises(Head(ts_data).close) THEN points_of(Tail(ts_data))
    ELSE <<[date |-> Head(ts_data).date, close |-> float(Head(ts_data).close)]>>
             \o points_of(Tail(ts_data))

\* StockService.get_daily_prices; the body is data.get("Time Series (Daily)", {})
get_daily_prices_of(symbol, r) ==
    IF ~r.ok THEN StockRaised(r.exc, <<"Daily Price API Error: " \o r.exc.msg>>, 1)
    ELSE IF r.body = <<>>
    THEN StockReturned([history |-> <<>>], <<"No daily price data for " \o symbol>>, 1)
    ELSE StockReturned([history |-> sort_by_date(points_of(r.body))], <<>>, 1)

get_daily_prices(key, symbol, answer) ==
    IF key = "" THEN StockRaised(KeyMissing, <<>>, 0)
    ELSE get_daily_prices_of(symbol, requests_get(daily_params(symbol, key), answer))

\* a join that writes 0 where no SMA matches
with_sma_or_zero(item, field, values) ==
    IF item.date \in DOMAIN values
    THEN item @@ (field :> float(values[item.date]))
    ELSE item @@ (field :> 0)

\* if date in sma_data["sma50_values"]: item["sma50"] = float(...)
with_sma(item, field, values) ==
    IF item.date \in DOMAIN values
    THEN item @@ (field :> float(values[item.date]))
    ELSE item

\* the join raises: an SMA text that matches a date is not a number
join_raises(history, values) ==
    \E i \in 1..Len(history) :
        history[i].date \in DOMAIN values /\ float_raises(values[history[i].date])

\* get_full_chart_data from its join on
chart_of(symbol, prices, sma) ==
    IF join_raises(prices.value.history, sma.value.sma50_values)
       \/ join_raises(prices.value.history, sma.value.sma200_values)
    THEN StockRaised(Exc("ValueError", "could not convert string to float"),
                     prices.log \o sma.log, prices.net + sma.net)
    ELSE StockReturned(
             [symbol |-> symbol_upper(symbol),
              history |-> [i \in 1..Len(prices.value.history) |->
                              with_sma(with_sma(prices.value.history[i], "sma50",
                                                sma.value.sma50_values),
                                       "sma200", sma.value.sma200_values)],
              latest_sma |-> [sma50 |-> sma.value.sma50, sma200 |-> sma.value.sma200]],
             prices.log \o sma.log, prices.net + sma.net)

\* a chart that is returned empty when the prices could not be fetched
chart_after_prices_partial(key, symbol, prices, sma) ==
    IF prices.kind = "raise"
    THEN StockReturned([symbol |-> symbol_upper(symbol), history |-> <<>>,
                        latest_sma |-> [sma50 |-> Null, sma200 |-> Null]],
                       prices.log, prices.net)
    ELSE IF sma.kind = "raise"
    THEN StockRaised(sma.exc, prices.log \o sma.log, prices.net + sma.net)
    ELSE chart_of(symbol, prices, sma)

\* get_full_chart_data once get_daily_prices has ended
chart_after_prices(key, symbol, prices, sma) ==
    IF prices.kind = "raise" THEN prices
    ELSE IF sma.kind = "raise"
    THEN StockRaised(sma.exc, prices.log \o sma.log, prices.net + sma.net)
    ELSE chart_of(symbol, prices, sma)

\* StockService.get_full_chart_data
get_full_chart_data(key, symbol, daily, a50, a200) ==
    chart_after_prices(key, symbol, get_daily_prices(key, symbol, daily),
                       get_sma(key, symbol, a50, a200))

\* the except clauses of get_stock_data_function and get_sma_data_function:
\* ValueError is 404 with str(ve) in the body, the rest is 500 and logged
answer_404_500(out, line, generic) ==
    IF out.kind = "return" THEN [http |-> 200, error |-> "", out |-> out, log |-> out.log]
    ELSE IF out.exc.type = "ValueError"
    THEN [http |-> 404, error |-> out.exc.msg, out |-> out, log |-> out.log]
    ELSE [http |-> 500, error |-> generic, out |-> out,
          log |-> Append(out.log, line \o out.exc.msg)]

\* the except clause of get_stock_history_function: every exception is 500
answer_500(out, line, generic) ==
    IF out.kind = "return" THEN [http |-> 200, error |-> "", out |-> out, log |-> out.log]
    ELSE [http |-> 500, error |-> generic, out |-> out,
          log |-> Append(out.log, line \o out.exc.msg)]

get_stock_data_function(key, symbol, answer) ==
    answer_404_500(get_quote(key, symbol, answer), "Internal Error: ",
                   "Internal server error processing request")

get_sma_data_function(key, symbol, a50, a200) ==
    answer_404_500(get_sma(key, symbol, a50, a200), "SMA Error: ",
                   "Internal server error processing SMA request")

get_stock_history_function(key, symbol, daily, a50, a200) ==
    answer_500(get_full_chart_data(key, symbol, daily, a50, a200), "History Error: ",
               "Internal server error processing history request")

\* what the provider may answer
AvAnswer(status, error, body) == [status |-> status, error |-> error, body |-> body]

AvFailures ==
    {AvAnswer(429, "", <<>>), AvAnswer(500, "", <<>>), AvAnswer(0, "Timeout", <<>>),
     AvAnswer(0, "ConnectionError", <<>>)}

QuoteAnswers ==
    {AvAnswer(200, "", [symbol |-> "IBM", price |-> Text(15000)]), AvAnswer(200, "", <<>>)}
        \cup AvFailures

\* a daily series out of date order, with a close that is not a number, with
\* dates older than the SMA dates that get_sma keeps, and one with no SMA
DailySeries ==
    <<[date |-> SmaKeep + 2, close |-> Text(106200)],
      [date |-> 1, close |-> Text(100100)],
      [date |-> SmaKeep + 3, close |-> Text(106300)],
      [date |-> 3, close |-> NotANumber],
      [date |-> 2, close |-> Text(100200)]>>

DailyAnswers ==
    {AvAnswer(200, "", DailySeries), AvAnswer(200, "", <<>>),
     AvAnswer(500, "", <<>>), AvAnswer(0, "Timeout", <<>>)}

\* the technical data of a period: longer than SmaKeep, short, and none
Technical(period, dates) == [d \in dates |-> Text(period * 1000 + d)]

SmaAnswers(period) ==
    {AvAnswer(200, "", Technical(period, 1..(SmaKeep + 2))),
     AvAnswer(200, "", Technical(period, {2, SmaKeep + 2})),
     AvAnswer(200, "", <<>>),
     AvAnswer(500, "", <<>>), AvAnswer(0, "Timeout", <<>>)}

StockOps == {"quote", "sma", "history"}

StockInputs ==
    [op : StockOps, key : {"", "AVSECRET"}, symbol : {"ibm"}, quote : QuoteAnswers,
     daily : DailyAnswers, a50 : SmaAnswers(50), a200 : SmaAnswers(200)]

NoStockInput ==
    [op |-> "", key |-> "", symbol |-> "", quote |-> AvAnswer(0, "", <<>>),
     daily |-> AvAnswer(0, "", <<>>), a50 |-> AvAnswer(0, "", <<>>),
     a200 |-> AvAnswer(0, "", <<>>)]

NoStockOut == [http |-> 0, error |-> "", out |-> StockRaised(NoStockExc, <<>>, 0), log |-> <<>>]

\* GET /quote/{symbol}
Quote ==
    /\ svc = "stock"
    /\ sIn.op = "quote"
    /\ sOut.http = 0
    /\ sOut' = get_stock_data_function(sIn.key, sIn.symbol, sIn.quote)
    /\ UNCHANGED <<nIn, cIn, cOut, sIn, mIn, mSeen, file, proc, rq, ws, keyVars, clockVars,
                   fhVars, newsVars>>

\* GET /sma/{symbol}
Sma ==
    /\ svc = "stock"
    /\ sIn.op = "sma"
    /\ sOut.http = 0
    /\ sOut' = get_sma_data_function(sIn.key, sIn.symbol, sIn.a50, sIn.a200)
    /\ UNCHANGED <<nIn, cIn, cOut, sIn, mIn, mSeen, file, proc, rq, ws, keyVars, clockVars,
                   fhVars, newsVars>>

\* GET /history/{symbol}
History ==
    /\ svc = "stock"
    /\ sIn.op = "history"
    /\ sOut.http = 0
    /\ sOut' = get_stock_history_function(sIn.key, sIn.symbol, sIn.daily, sIn.a50, sIn.a200)
    /\ UNCHANGED <<nIn, cIn, cOut, sIn, mIn, mSeen, file, proc, rq, ws, keyVars, clockVars,
                   fhVars, newsVars>>

---------------------------------------------------------------------------
(* The watchlist store under concurrent requests (watchlist_repository.py) *)

\* concurrent requests on the store
NumRequests == 2

RepoRequests == 1..NumRequests
RepoUsers == {"u1", "u2"}
RepoOps == {"create", "upsert", "delete"}
Backends == {"file", "table"}

\* str(uuid.uuid4()) in create_watchlist, and the distinct watchlists the other requests name
watchlist_id_of(p) == "w" \o ToString(p)

\* wl.model_dump(): the payload request p stores
model_dump(p, name) == [id |-> watchlist_id_of(p), name |-> name]

\* raw.get(user_id), {} unless it is a dict
per_user_of(raw, user_id) == IF user_id \in DOMAIN raw THEN raw[user_id] ELSE <<>>

\* per_user[watchlist_id] = payload; raw[user_id] = per_user
put_entity(raw, user_id, watchlist_id, payload) ==
    LET per_user == per_user_of(raw, user_id)
        updated == [i \in DOMAIN per_user \cup {watchlist_id} |->
                       IF i = watchlist_id THEN payload ELSE per_user[i]]
    IN  [u \in DOMAIN raw \cup {user_id} |-> IF u = user_id THEN updated ELSE raw[u]]

\* per_user.pop(watchlist_id, None); raw[user_id] = per_user
pop_entity(raw, user_id, watchlist_id) ==
    LET per_user == per_user_of(raw, user_id)
        updated == [i \in DOMAIN per_user \ {watchlist_id} |-> per_user[i]]
    IN  [u \in DOMAIN raw \cup {user_id} |-> IF u = user_id THEN updated ELSE raw[u]]

\* existed = watchlist_id in per_user
existed_in(raw, user_id, watchlist_id) == watchlist_id \in DOMAIN per_user_of(raw, user_id)

\* what create_watchlist, upsert_watchlist and delete_watchlist make of the data they read
written_by(r, raw) ==
    IF r.op = "delete"
    THEN IF existed_in(raw, r.user_id, r.watchlist_id)
         THEN pop_entity(raw, r.user_id, r.watchlist_id) ELSE raw
    ELSE put_entity(raw, r.user_id, r.watchlist_id, r.payload)

\* build_watchlist_repository() returns a new repository object, with a new _lock, to each
\* WatchlistService, and each request constructs its own WatchlistService
repo_of(p) == p

\* self._lock of the repository of request p is free
lock_free(p) == \A q \in DOMAIN proc : repo_of(q) = repo_of(p) => proc[q].pc # "locked"

RepoRequest(p, op, user_id) ==
    [op |-> op, user_id |-> user_id, watchlist_id |-> watchlist_id_of(p),
     payload |-> model_dump(p, "new"), pc |-> "start", raw |-> <<>>, existed |-> FALSE]

\* the watchlists that exist before the requests: those the upserts and deletes name
stored_before(requests) ==
    LET named(u) == {p \in DOMAIN requests : requests[p].op # "create" /\ requests[p].user_id = u}
        users == {u \in RepoUsers : named(u) # {}}
        of(u, i) == CHOOSE p \in named(u) : watchlist_id_of(p) = i
    IN  [u \in users |-> [i \in {watchlist_id_of(p) : p \in named(u)} |-> model_dump(of(u, i), "old")]]

NoFile == [backend |-> "file", data |-> <<>>]

\* with self._lock: raw = self._read_all()
ReadAll(p) ==
    /\ svc = "repo"
    /\ file.backend = "file"
    /\ proc[p].pc = "start"
    /\ lock_free(p)
    /\ proc' = [proc EXCEPT ![p].pc = "locked", ![p].raw = file.data,
                            ![p].existed = existed_in(file.data, proc[p].user_id, proc[p].watchlist_id)]
    /\ UNCHANGED <<file, nIn, cIn, cOut, sIn, sOut, mIn, mSeen, rq, ws, keyVars, clockVars,
                   fhVars, newsVars>>

\* self._write_all(raw), of the data read under the lock and changed; the lock is released
WriteAll(p) ==
    /\ svc = "repo"
    /\ proc[p].pc = "locked"
    /\ file' = IF proc[p].op = "delete" /\ ~proc[p].existed
               THEN file
               ELSE [file EXCEPT !.data = written_by(proc[p], proc[p].raw)]
    /\ proc' = [proc EXCEPT ![p].pc = "done"]
    /\ UNCHANGED <<nIn, cIn, cOut, sIn, sOut, mIn, mSeen, rq, ws, keyVars, clockVars,
                   fhVars, newsVars>>

\* AzureTableWatchlistRepository: upsert_entity / delete_entity of the one entity
TableWrite(p) ==
    /\ svc = "repo"
    /\ file.backend = "table"
    /\ proc[p].pc = "start"
    /\ file' = [file EXCEPT !.data = written_by(proc[p], file.data)]
    /\ proc' = [proc EXCEPT ![p].pc = "done",
                            ![p].existed = existed_in(file.data, proc[p].user_id, proc[p].watchlist_id)]
    /\ UNCHANGED <<nIn, cIn, cOut, sIn, sOut, mIn, mSeen, rq, ws, keyVars, clockVars,
                   fhVars, newsVars>>

---------------------------------------------------------------------------
(* Successive requests: every handler invocation constructs its service objects *)

\* handler invocations within the process
MaxServed == 2

\* rq.on: the behaviour follows successive requests; rq.n: the request being served;
\* rq.since: the calls made before it began; rq.left: FinnhubService._cache of the
\* previous request's service object, as that request left it
NoRequests == [on |-> FALSE, n |-> 0, since |-> 0, left |-> <<>>]
FirstRequest == [on |-> TRUE, n |-> 1, since |-> 0, left |-> <<>>]

\* FinnhubService.__init__: self._cache = {}
new_cache == <<>>

\* The next handler invocation: CatalystsService() and _build_items_from_symbols call
\* FinnhubService(), and the calls of this request go through the new object
NewRequest ==
    /\ svc = "finnhub"
    /\ rq.on
    /\ pc = "idle"
    /\ rq.n < MaxServed
    /\ rq' = [rq EXCEPT !.n = rq.n + 1, !.since = calls, !.left = fhCache]
    /\ fhCache' = new_cache
    /\ UNCHANGED <<nIn, cIn, cOut, sIn, sOut, mIn, mSeen, file, proc, ws, keyVars, clockVars,
                   api_key, max_retries, pc, call, attempt, last_exc, response, all429,
                   events, outcome, newsVars>>

---------------------------------------------------------------------------
(* WatchlistService: create and update, the enrichment, the version token *)

\* create / update operations on the watchlist
MaxWatchlistOps == 3

UpperLetters == "ABCDEFGHIJKLMNOPQRSTUVWXYZ"
LowerLetters == "abcdefghijklmnopqrstuvwxyz"

lower_char(c) ==
    IF \E i \in 1..Len(UpperLetters) : SubSeq(UpperLetters, i, i) = c
    THEN LET i == CHOOSE j \in 1..Len(UpperLetters) : SubSeq(UpperLetters, j, j) = c
         IN  SubSeq(LowerLetters, i, i)
    ELSE c

\* s.lower()
RECURSIVE py_lower(_)
py_lower(s) ==
    IF Len(s) = 0 THEN "" ELSE lower_char(SubSeq(s, 1, 1)) \o py_lower(SubSeq(s, 2, Len(s)))

\* s.strip()
RECURSIVE py_strip(_)
py_strip(s) ==
    IF Len(s) = 0 THEN ""
    ELSE IF SubSeq(s, 1, 1) = " " THEN py_strip(SubSeq(s, 2, Len(s)))
    ELSE IF SubSeq(s, Len(s), Len(s)) = " " THEN py_strip(SubSeq(s, 1, Len(s) - 1))
    ELSE s

\* k in s, for strings
Contains(s, sub) ==
    \E i \in 1..(Len(s) - Len(sub) + 1) : SubSeq(s, i, i + Len(sub) - 1) = sub

\* the keyword lists of derive_sector_from_industry, in the order of its tests
SectorRules ==
    << <<"Technology", <<"software", "semiconductor", "technology", "it services", "internet">>>>,
       <<"Financials", <<"bank", "insurance", "capital markets", "asset management", "financial">>>>,
       <<"Health Care", <<"pharma", "biotech", "health", "medical", "hospital">>>>,
       <<"Energy", <<"oil", "gas", "energy", "pipeline", "renewable">>>>,
       <<"Industrials", <<"aerospace", "defense", "industrial", "machinery", "construction">>>>,
       <<"Consumer", <<"retail", "consumer", "apparel", "autos", "travel", "leisure">>>>,
       <<"Communication", <<"telecom", "wireless", "media", "entertainment">>>>,
       <<"Utilities", <<"utility", "water", "electric", "power">>>>,
       <<"Real Estate", <<"real estate", "reit">>>>,
       <<"Materials", <<"materials", "chemical", "mining", "metals">>>> >>

\* sector_mapping.derive_sector_from_industry
derive_sector_from_industry(industry) ==
    IF industry = None \/ industry = "" THEN None
    ELSE LET industry_norm == py_lower(py_strip(industry))
             hits == {i \in 1..Len(SectorRules) :
                         \E j \in 1..Len(SectorRules[i][2]) :
                             Contains(industry_norm, SectorRules[i][2][j])}
         IN  IF hits = {} THEN None
             ELSE SectorRules[CHOOSE i \in hits : \A j \in hits : i <= j][1]

\* d.get(k)
dict_get_or_none(d, k) == IF k \in dict_keys(d) THEN dict_get(d, k) ELSE None

\* _unique_symbols: normalised, empty ones and repetitions dropped, first come first
RECURSIVE unique_from(_, _, _)
unique_from(symbols, seen, uniq) ==
    IF symbols = <<>> THEN uniq
    ELSE LET sym == strip_upper(Head(symbols))
         IN  IF sym = "" \/ sym \in seen
             THEN unique_from(Tail(symbols), seen, uniq)
             ELSE unique_from(Tail(symbols), seen \cup {sym}, Append(uniq, sym))

_unique_symbols(symbols) == unique_from(symbols, {}, <<>>)

\* Optional[List[str]]: <<>> is None, <<list>> is a list
NoSymbols == <<>>
SomeSymbols(list) == <<list>>

\* the None of a watchlist that is not there
NoSuchWatchlist == [none |-> "watchlist"]

\* what _get_json gives for /stock/profile2: a JSON object, or an exception
ProfileReturned(v) == [kind |-> "return", value |-> v, exc |-> NoExc]
ProfileRaised(e) == [kind |-> "raise", value |-> <<>>, exc |-> e]

\* the world a lookup meets: the configured key and, per symbol, what _get_json gives
\* for /stock/profile2
Lookups(key, answers) == [key |-> key, answers |-> answers]

\* FinnhubService.get_company_profile2
get_company_profile2(symbol, world) ==
    IF symbol = "" THEN ProfileRaised([type |-> "ValueError", status |-> 0])
    ELSE LET data == IF world.key = ""
                     THEN ProfileRaised([type |-> "ValueError", status |-> 0])
                     ELSE world.answers[symbol]
         IN  IF data.kind = "raise" THEN data
             ELSE IF data.value = <<>> THEN ProfileRaised([type |-> "ValueError", status |-> 0])
             ELSE data

WatchlistItem(symbol, country, industry, sector) ==
    [symbol |-> symbol, country |-> country, industry |-> industry, sector |-> sector]

\* a failed lookup that leaves empty strings
after_lookup_failure_empty == [country |-> "", industry |-> "", sector |-> ""]

\* country, industry and sector as the except clause finds them
after_lookup_failure == [country |-> None, industry |-> None, sector |-> None]

\* the try block of _build_items_from_symbols
enrichment(sym, world) ==
    LET profile == get_company_profile2(sym, world)
    IN  IF profile.kind = "raise" THEN after_lookup_failure
        ELSE LET industry == dict_get_or_none(profile.value, "finnhubIndustry")
             IN  [country |-> dict_get_or_none(profile.value, "country"),
                  industry |-> industry,
                  sector |-> derive_sector_from_industry(industry)]

\* WatchlistService._build_items_from_symbols
_build_items_from_symbols(symbols, world) ==
    LET uniq == _unique_symbols(symbols)
    IN  [i \in 1..Len(uniq) |->
            LET e == enrichment(uniq[i], world)
            IN  WatchlistItem(uniq[i], e.country, e.industry, e.sector)]

\* watchlist_repository._utc_now_iso: the whole second with the offset "+00:00"
_utc_now_iso(t) == [sec |-> t \div TicksPerSecond, tz |-> "+00:00"]

\* iso_utc_now as the string it is: the whole second with the suffix "Z"
iso_utc_now_text(t) == [sec |-> iso_utc_now(t), tz |-> "Z"]

Watchlist(id, name, items, created_utc, updated_utc) ==
    [id |-> id, name |-> name, items |-> items, created_utc |-> created_utc,
     updated_utc |-> updated_utc]

\* WatchlistService.create_watchlist, with the repository's create_watchlist
create_watchlist(name, symbols, world, t) ==
    LET items == _build_items_from_symbols(symbols[1], world)
        stamp == _utc_now_iso(t)
    IN  Watchlist("w1", name, items, stamp, stamp)

\* an update that stamps the watchlist as created anew
update_watchlist_created_anew(existing, name, symbols, world, t) ==
    IF existing = NoSuchWatchlist THEN NoSuchWatchlist
    ELSE Watchlist(existing.id,
                   IF name # None THEN name ELSE existing.name,
                   IF symbols # NoSymbols THEN _build_items_from_symbols(symbols[1], world)
                   ELSE existing.items,
                   iso_utc_now_text(t),
                   iso_utc_now_text(t))

\* WatchlistService.update_watchlist
update_watchlist(existing, name, symbols, world, t) ==
    IF existing = NoSuchWatchlist THEN NoSuchWatchlist
    ELSE Watchlist(existing.id,
                   IF name # None THEN name ELSE existing.name,
                   IF symbols # NoSymbols THEN _build_items_from_symbols(symbols[1], world)
                   ELSE existing.items,
                   existing.created_utc,
                   iso_utc_now_text(t))

\* the payloads of /stock/profile2
ProfileOf(symbol) ==
    IF symbol = "AAPL"
    THEN <<<<"country", "US">>, <<"finnhubIndustry", "Technology">>, <<"name", "Apple Inc">>>>
    ELSE <<<<"finnhubIndustry", " Commercial Banks">>, <<"name", "Microsoft">>>>

EnrichedSymbols == {"AAPL", "MSFT"}

ProfileAnswers(symbol) ==
    { ProfileReturned(ProfileOf(symbol)), ProfileReturned(<<>>),
      ProfileRaised([type |-> "HTTPError", status |-> 429]) }

NoLookups == Lookups("K1", <<>>)

\* the worlds the lookups of a symbol list can meet
Worlds(symbols) ==
    IF symbols = NoSymbols THEN {NoLookups}
    ELSE IF _unique_symbols(symbols[1]) = <<>> THEN {NoLookups}
    ELSE {Lookups("", <<>>)}
           \cup {Lookups("K1", f) : f \in {g \in [EnrichedSymbols -> UNION {ProfileAnswers(s) : s \in EnrichedSymbols}] :
                                              \A s \in EnrichedSymbols : g[s] \in ProfileAnswers(s)}}

WatchlistSymbolLists ==
    {SomeSymbols(<<>>), SomeSymbols(<<"aapl", "AAPL", " ", " msft ">>), SomeSymbols(<<"msft">>)}
\* the name a watchlist is created with, and the name an update may give it
WatchlistNames == {"n1"}
NewNames == {"n2"}

\* ws.stored: the watchlist in the store; ws.tokens: updated_utc after each mutation;
\* ws.last: the last operation, the watchlist it met in the store and what it returned
NoWatchlistState ==
    [stored |-> NoSuchWatchlist, tokens |-> <<>>,
     last |-> [op |-> "none", name |-> None, symbols |-> NoSymbols, world |-> NoLookups,
               before |-> NoSuchWatchlist, result |-> NoSuchWatchlist]]

\* POST /watchlists
CallCreateWatchlist(name, symbols, world) ==
    /\ svc = "watchlist"
    /\ calls < MaxWatchlistOps
    /\ ws.stored = NoSuchWatchlist
    /\ calls' = calls + 1
    /\ LET created == create_watchlist(name, symbols, world, now)
       IN  ws' = [stored |-> created, tokens |-> <<created.updated_utc>>,
                  last |-> [op |-> "create", name |-> name, symbols |-> symbols,
                            world |-> world, before |-> ws.stored, result |-> created]]
    /\ UNCHANGED <<nIn, cIn, cOut, sIn, sOut, mIn, mSeen, file, proc, rq, keyVars, svc, now,
                   ticks, fhVars, newsVars>>

\* PUT /watchlists/{id}
CallUpdateWatchlist(name, symbols, world) ==
    /\ svc = "watchlist"
    /\ calls < MaxWatchlistOps
    /\ calls' = calls + 1
    /\ LET updated == update_watchlist(ws.stored, name, symbols, world, now)
       IN  ws' = [stored |-> IF updated = NoSuchWatchlist THEN ws.stored ELSE updated,
                  tokens |-> IF updated = NoSuchWatchlist THEN ws.tokens
                             ELSE Append(ws.tokens, updated.updated_utc),
                  last |-> [op |-> "update", name |-> name, symbols |-> symbols,
                            world |-> world, before |-> ws.stored, result |-> updated]]
    /\ UNCHANGED <<nIn, cIn, cOut, sIn, sOut, mIn, mSeen, file, proc, rq, keyVars, svc, now,
                   ticks, fhVars, newsVars>>

---------------------------------------------------------------------------
(* The watchlist store under successive requests of several users *)

\* requests served one after another
MaxStoreOps == 4

StoreIds == {"w1", "w2"}

\* a lookup that finds the watchlist under whatever user holds it
entity_of_any_user(data, user_id, watchlist_id) ==
    IF \E u \in DOMAIN data : watchlist_id \in DOMAIN data[u]
    THEN LET u == CHOOSE v \in DOMAIN data : watchlist_id \in DOMAIN data[v]
         IN  {data[u][watchlist_id]}
    ELSE {}

\* per_user.get(watchlist_id) of the user's own partition: the payload, if there is one
entity_of(data, user_id, watchlist_id) ==
    IF existed_in(data, user_id, watchlist_id) THEN {data[user_id][watchlist_id]} ELSE {}

\* list_watchlists: the watchlists of the user's partition
entities_of(data, user_id) ==
    {per_user_of(data, user_id)[i] : i \in DOMAIN per_user_of(data, user_id)}

\* a served request: what it was, what it returned, and the store it met
Served(op, user_id, watchlist_id, returned, ok) ==
    [op |-> op, user_id |-> user_id, watchlist_id |-> watchlist_id, returned |-> returned,
     ok |-> ok, before |-> file.data]

\* WatchlistService.create_watchlist: a new id, stored under the user
StoreCreate(user_id) ==
    /\ svc = "store"
    /\ Len(proc) < MaxStoreOps
    /\ LET payload == model_dump(Len(proc) + 1, "new")
       IN  /\ file' = [file EXCEPT !.data = put_entity(@, user_id, payload.id, payload)]
           /\ proc' = Append(proc, Served("create", user_id, payload.id, {payload}, TRUE))
    /\ UNCHANGED <<nIn, cIn, cOut, sIn, sOut, mIn, mSeen, rq, ws, keyVars, clockVars,
                   fhVars, newsVars>>

\* WatchlistService.get_watchlist
StoreGet(user_id, watchlist_id) ==
    /\ svc = "store"
    /\ Len(proc) < MaxStoreOps
    /\ LET found == entity_of(file.data, user_id, watchlist_id)
       IN  proc' = Append(proc, Served("get", user_id, watchlist_id, found, found # {}))
    /\ UNCHANGED <<file, nIn, cIn, cOut, sIn, sOut, mIn, mSeen, rq, ws, keyVars, clockVars,
                   fhVars, newsVars>>

\* WatchlistService.list_watchlists
StoreList(user_id) ==
    /\ svc = "store"
    /\ Len(proc) < MaxStoreOps
    /\ proc' = Append(proc, Served("list", user_id, "", entities_of(file.data, user_id), TRUE))
    /\ UNCHANGED <<file, nIn, cIn, cOut, sIn, sOut, mIn, mSeen, rq, ws, keyVars, clockVars,
                   fhVars, newsVars>>

\* WatchlistService.update_watchlist (a rename): get_watchlist, then upsert_watchlist
StoreUpdate(user_id, watchlist_id) ==
    /\ svc = "store"
    /\ Len(proc) < MaxStoreOps
    /\ LET found == entity_of(file.data, user_id, watchlist_id)
           updated == {[w EXCEPT !.name = "renamed"] : w \in found}
       IN  /\ file' = IF found = {} THEN file
                      ELSE [file EXCEPT !.data =
                               put_entity(@, user_id, watchlist_id, CHOOSE w \in updated : TRUE)]
           /\ proc' = Append(proc, Served("update", user_id, watchlist_id, updated, found # {}))
    /\ UNCHANGED <<nIn, cIn, cOut, sIn, sOut, mIn, mSeen, rq, ws, keyVars, clockVars,
                   fhVars, newsVars>>

\* WatchlistService.delete_watchlist
StoreDelete(user_id, watchlist_id) ==
    /\ svc = "store"
    /\ Len(proc) < MaxStoreOps
    /\ LET existed == existed_in(file.data, user_id, watchlist_id)
       IN  /\ file' = IF existed
                      THEN [file EXCEPT !.data = pop_entity(@, user_id, watchlist_id)]
                      ELSE file
           /\ proc' = Append(proc, Served("delete", user_id, watchlist_id, {}, existed))
    /\ UNCHANGED <<nIn, cIn, cOut, sIn, sOut, mIn, mSeen, rq, ws, keyVars, clockVars,
                   fhVars, newsVars>>

---------------------------------------------------------------------------
(* Requests on one watchlist: get_watchlist, update_watchlist and delete_watchlist *)

\* the concurrent requests and one more
RaceRequests == 1..(NumRequests + 1)
RaceOps == {"get", "update", "delete"}

\* a request on watchlist w1 of user u1; found: what its get_watchlist returned;
\* after_delete: a delete_watchlist had returned true when its get_watchlist ran
RaceRequest(op) ==
    [op |-> op, user_id |-> "u1", watchlist_id |-> "w1",
     payload |-> [id |-> "w1", name |-> "new"],
     pc |-> IF op = "delete" THEN "start" ELSE "lookup",
     raw |-> <<>>, existed |-> FALSE, found |-> {}, after_delete |-> FALSE]

\* the store holds the watchlist before the requests
stored_w1 == [u \in {"u1"} |-> [i \in {"w1"} |-> [id |-> "w1", name |-> "old"]]]

\* some delete_watchlist on the watchlist has returned true
delete_returned_true ==
    \E q \in DOMAIN proc : proc[q].op = "delete" /\ proc[q].pc = "done" /\ proc[q].existed

\* get_watchlist, by itself or as the first step of update_watchlist, which returns None
\* when it finds nothing and otherwise goes on to upsert_watchlist
GetWatchlist(p) ==
    /\ svc = "repo"
    /\ proc[p].pc = "lookup"
    /\ LET found == entity_of(file.data, proc[p].user_id, proc[p].watchlist_id)
       IN  proc' = [proc EXCEPT ![p].found = found,
                                ![p].after_delete = delete_returned_true,
                                ![p].pc = IF proc[p].op = "update" /\ found # {}
                                          THEN "start" ELSE "done"]
    /\ UNCHANGED <<file, nIn, cIn, cOut, sIn, sOut, mIn, mSeen, rq, ws, keyVars, clockVars,
                   fhVars, newsVars>>

---------------------------------------------------------------------------
(* The cache maps under concurrent request threads (finnhub_service.py, news_service.py) *)

Threads == 1..NumRequests

\* the cache maps: FinnhubService._cache of two service objects, and news_service._news_cache
CacheMaps == {"finnhub1", "finnhub2", "news"}

\* what a thread runs, and the map it works on
ThreadOps ==
    {[op |-> "_get_json", cache |-> c] : c \in {"finnhub1", "finnhub2"}}
        \cup {[op |-> o, cache |-> "news"] : o \in {"get_company_news", "get_watchlist_news"}}

\* a lock of its own for every thread
lock_per_thread(cache, t) == <<cache, t>>

\* the lock a thread takes around an access to a map: self._cache_lock, created beside
\* self._cache, and the module's _cache_lock beside _news_cache
lock_of(cache, t) == <<cache, 0>>

\* nobody holds the lock
lock_is_free(lock) == \A u \in DOMAIN proc : lock \notin proc[u].holds

Thread(o) ==
    [op |-> o.op, cache |-> o.cache, pc |-> "start", holds |-> {}, attempt |-> 0,
     part |-> IF o.op = "get_watchlist_news" THEN "aggregate" ELSE "call"]

\* where a thread goes when its call (or the get_company_news inside its aggregate) returns
after_return(th) ==
    IF th.part = "symbol" THEN [th EXCEPT !.pc = "store", !.part = "aggregate"]
    ELSE [th EXCEPT !.pc = "done"]

\* with lock: entering _cache_get, or the lookups of get_company_news / get_watchlist_news
EnterGet(t) ==
    /\ svc = "threads"
    /\ proc[t].pc = "start"
    /\ lock_is_free(lock_of(proc[t].cache, t))
    /\ proc' = [proc EXCEPT ![t].pc = "get", ![t].holds = @ \cup {lock_of(proc[t].cache, t)}]
    /\ UNCHANGED <<file, nIn, cIn, cOut, sIn, sOut, mIn, mSeen, rq, ws, keyVars, clockVars,
                   fhVars, newsVars>>

\* the end of the with block of a lookup: a hit returns, a miss goes on to the network
\* (the aggregate goes on to get_company_news)
LeaveGet(t, hit) ==
    /\ proc[t].pc = "get"
    /\ LET th == [proc[t] EXCEPT !.holds = @ \ {lock_of(proc[t].cache, t)}]
       IN  proc' = [proc EXCEPT ![t] =
                       IF hit THEN after_return(th)
                       ELSE IF th.part = "aggregate"
                       THEN [th EXCEPT !.pc = "start", !.part = "symbol"]
                       ELSE [th EXCEPT !.pc = "net"]]
    /\ UNCHANGED <<file, nIn, cIn, cOut, sIn, sOut, mIn, mSeen, rq, ws, keyVars, clockVars,
                   fhVars, newsVars>>

\* session.get and what follows it: a payload to store, a retry after a sleep (only
\* _get_json retries), or an exception that ends the call
Network(t, answer) ==
    /\ proc[t].pc = "net"
    /\ proc' = [proc EXCEPT ![t] =
                   IF answer = "ok" THEN [@ EXCEPT !.pc = "store"]
                   ELSE IF /\ answer = "transient" /\ @.op = "_get_json"
                           /\ ~is_last_attempt(@.attempt, max_retries)
                   THEN [@ EXCEPT !.pc = "sleep"]
                   ELSE [@ EXCEPT !.pc = "done"]]
    /\ UNCHANGED <<file, nIn, cIn, cOut, sIn, sOut, mIn, mSeen, rq, ws, keyVars, clockVars,
                   fhVars, newsVars>>

\* time.sleep(sleep_for) is over
WakeUp(t) ==
    /\ proc[t].pc = "sleep"
    /\ proc' = [proc EXCEPT ![t].pc = "net", ![t].attempt = @ + 1]
    /\ UNCHANGED <<file, nIn, cIn, cOut, sIn, sOut, mIn, mSeen, rq, ws, keyVars, clockVars,
                   fhVars, newsVars>>

\* with lock: entering _cache_set, or the stores of get_company_news / get_watchlist_news
EnterSet(t) ==
    /\ proc[t].pc = "store"
    /\ lock_is_free(lock_of(proc[t].cache, t))
    /\ proc' = [proc EXCEPT ![t].pc = "set", ![t].holds = @ \cup {lock_of(proc[t].cache, t)}]
    /\ UNCHANGED <<file, nIn, cIn, cOut, sIn, sOut, mIn, mSeen, rq, ws, keyVars, clockVars,
                   fhVars, newsVars>>

\* the end of the with block of a store
LeaveSet(t) ==
    /\ proc[t].pc = "set"
    /\ proc' = [proc EXCEPT ![t] =
                   after_return([@ EXCEPT !.holds = @ \ {lock_of(proc[t].cache, t)}])]
    /\ UNCHANGED <<file, nIn, cIn, cOut, sIn, sOut, mIn, mSeen, rq, ws, keyVars, clockVars,
                   fhVars, newsVars>>

---------------------------------------------------------------------------
(* _cache_key as a function: two computations side by side *)

KeyPaths == {"/stock/profile2", "/calendar/earnings"}

\* the items a params dict may hold: non-secret parameters (a value may hold the
\* characters '&' and '=') and the token
KeyItems ==
    ({"from", "symbol"} \X {"2024-01-01", "AAPL", "2024-01-01&symbol=AAPL"})
        \cup ({"token"} \X {"K1", "K2"})

\* the dicts of at most MaxParams items (a key occurs once in a dict)
KeyDicts ==
    {d \in UNION {[1..n -> KeyItems] : n \in 0..MaxParams} :
        \A i, j \in 1..Len(d) : d[i][1] = d[j][1] => i = j}

NoKeyInput == [path |-> "", a |-> <<>>, b |-> <<>>]
NoKeys == [a |-> None, b |-> None]

ComputeKeys ==
    /\ kOut = NoKeys
    /\ kOut' = [a |-> _cache_key(kIn.path, kIn.a), b |-> _cache_key(kIn.path, kIn.b)]
    /\ UNCHANGED <<fnVars, kIn, clockVars, fhVars, newsVars>>

---------------------------------------------------------------------------
(* The variables of the other specifications, at rest *)

StockIdle == sIn = NoStockInput /\ sOut = NoStockOut
MacroIdle == mIn = <<>> /\ mSeen = {}
RepoIdle == file = NoFile /\ proc = <<>>
RequestsIdle == rq = NoRequests
WatchlistIdle == ws = NoWatchlistState
MoreIdle == StockIdle /\ MacroIdle /\ RepoIdle /\ RequestsIdle /\ WatchlistIdle

BaseIdle ==
    /\ now = 0
    /\ calls = 0
    /\ ticks = 0
    /\ api_key = "K1"
    /\ max_retries = DefaultMaxRetries
    /\ fhCache = <<>>
    /\ pc = "idle"
    /\ call = [path |-> "", params |-> <<>>, key |-> None, ttl |-> 0, at |-> 0,
               found |-> "absent", cache0 |-> <<>>]
    /\ attempt = 0
    /\ last_exc = NoExc
    /\ response = NoResponse
    /\ all429 = TRUE
    /\ events = <<>>
    /\ outcome = NoOutcome
    /\ newsCache = <<>>
    /\ newsOut = NoNewsOut
    /\ aggregates = {}
    /\ wl = [items |-> <<"AAPL", "MSFT">>, updated_utc |-> iso_utc_now(0)]
    /\ updates = 0
    /\ kIn = NoKeyInput
    /\ kOut = NoKeys
    /\ nIn = NoNewsInput
    /\ cIn = NoCatalystsInput
    /\ cOut = NoCatalystsOut

InitKey ==
    /\ svc = "finnhub"
    /\ now = 0
    /\ calls = 0
    /\ ticks = 0
    /\ api_key = "K1"
    /\ max_retries = DefaultMaxRetries
    /\ fhCache = <<>>
    /\ pc = "idle"
    /\ call = [path |-> "", params |-> <<>>, key |-> None, ttl |-> 0, at |-> 0,
               found |-> "absent", cache0 |-> <<>>]
    /\ attempt = 0
    /\ last_exc = NoExc
    /\ response = NoResponse
    /\ all429 = TRUE
    /\ events = <<>>
    /\ outcome = NoOutcome
    /\ newsCache = <<>>
    /\ newsOut = NoNewsOut
    /\ aggregates = {}
    /\ wl = [items |-> <<"AAPL", "MSFT">>, updated_utc |-> iso_utc_now(0)]
    /\ updates = 0
    /\ kIn \in [path : KeyPaths, a : KeyDicts, b : KeyDicts]
    /\ kOut = NoKeys
    /\ nIn = NoNewsInput
    /\ cIn = NoCatalystsInput
    /\ cOut = NoCatalystsOut
    /\ MoreIdle

NextKey == ComputeKeys

---------------------------------------------------------------------------
(* The clock *)

\* The clock advances by the time to live of the driven service's cache, or by
\* one tick less; between the operations on a watchlist, by a tick or by a second.
TickSteps ==
    IF svc = "finnhub"
    THEN {DefaultTtlSeconds * TicksPerSecond - 1, DefaultTtlSeconds * TicksPerSecond}
    ELSE IF svc = "watchlist"
    THEN {1, TicksPerSecond}
    ELSE {CACHE_TTL_SECONDS * TicksPerSecond - 1, CACHE_TTL_SECONDS * TicksPerSecond}

Tick(d) ==
    /\ pc = "idle"
    /\ ticks < MaxTicks
    /\ ticks' = ticks + 1
    /\ now' = now + d
    /\ UNCHANGED <<fnVars, keyVars, svc, calls, fhVars, newsVars>>

---------------------------------------------------------------------------
Init ==
    /\ svc \in {"finnhub", "news"}
    /\ now = 0
    /\ calls = 0
    /\ ticks = 0
    /\ api_key \in {"", "K1"}
    /\ max_retries \in IF svc = "finnhub" THEN 0..DefaultMaxRetries ELSE {DefaultMaxRetries}
    /\ fhCache = <<>>
    /\ pc = "idle"
    /\ call = [path |-> "", params |-> <<>>, key |-> None, ttl |-> 0, at |-> 0,
               found |-> "absent", cache0 |-> <<>>]
    /\ response = NoResponse
    /\ all429 = TRUE
    /\ aggregates = {}
    /\ attempt = 0
    /\ last_exc = NoExc
    /\ events = <<>>
    /\ outcome = NoOutcome
    /\ newsCache = <<>>
    /\ newsOut = NoNewsOut
    /\ wl = [items |-> <<"AAPL", "MSFT">>, updated_utc |-> iso_utc_now(0)]
    /\ updates = 0
    /\ kIn = NoKeyInput
    /\ kOut = NoKeys
    /\ nIn = NoNewsInput
    /\ cIn = NoCatalystsInput
    /\ cOut = NoCatalystsOut
    /\ MoreIdle

vars == <<svc, now, calls, ticks, api_key, max_retries, fhCache, pc, call, attempt, last_exc,
          response, all429, events, outcome, newsCache, newsOut, aggregates, wl, updates,
          kIn, kOut, nIn, cIn, cOut, sIn, sOut, mIn, mSeen, file, proc, rq, ws>>

Next ==
    \/ \E req \in Requests, ttl \in TtlChoices : GetJsonStart(req, ttl)
    \/ \E resp \in Responses : GetJsonAttempt(resp)
    \/ \E jitter \in Jitters : GetJsonSleep(jitter)
    \/ \E d \in TickSteps : Tick(d)
    \/ \E symbol \in NewsSymbols, resp \in NewsResponses : GetCompanyNews(symbol, resp)
    \/ \E symbol \in SymbolParams, per_symbol \in PerSymbolParams,
          resps \in [1..Len(wl.items) -> NewsResponses] :
          WatchlistNews(symbol, per_symbol, resps)
    \/ UpdateWatchlist

Spec == Init /\ [][Next]_vars

InitNews ==
    /\ svc = "news"
    /\ now = 0
    /\ calls = 0
    /\ ticks = 0
    /\ api_key = "K1"
    /\ max_retries = DefaultMaxRetries
    /\ fhCache = <<>>
    /\ pc = "idle"
    /\ call = [path |-> "", params |-> <<>>, key |-> None, ttl |-> 0, at |-> 0,
               found |-> "absent", cache0 |-> <<>>]
    /\ attempt = 0
    /\ last_exc = NoExc
    /\ response = NoResponse
    /\ all429 = TRUE
    /\ events = <<>>
    /\ outcome = NoOutcome
    /\ newsCache = <<>>
    /\ newsOut = NoNewsOut
    /\ aggregates = {}
    /\ wl = [items |-> <<"AAPL", "MSFT">>, updated_utc |-> iso_utc_now(0)]
    /\ updates = 0
    /\ kIn = NoKeyInput
    /\ kOut = NoKeys
    /\ nIn \in NewsInputs
    /\ cIn = NoCatalystsInput
    /\ cOut = NoCatalystsOut
    /\ MoreIdle

NextNews == CallWatchlistNews \/ CallCompanyNews

SpecNews == InitNews /\ [][NextNews]_vars

InitCatalysts ==
    /\ svc = "catalysts"
    /\ now = 0
    /\ calls = 0
    /\ ticks = 0
    /\ api_key = "K1"
    /\ max_retries = DefaultMaxRetries
    /\ fhCache = <<>>
    /\ pc = "idle"
    /\ call = [path |-> "", params |-> <<>>, key |-> None, ttl |-> 0, at |-> 0,
               found |-> "absent", cache0 |-> <<>>]
    /\ attempt = 0
    /\ last_exc = NoExc
    /\ response = NoResponse
    /\ all429 = TRUE
    /\ events = <<>>
    /\ outcome = NoOutcome
    /\ newsCache = <<>>
    /\ newsOut = NoNewsOut
    /\ aggregates = {}
    /\ wl = [items |-> <<"AAPL", "MSFT">>, updated_utc |-> iso_utc_now(0)]
    /\ updates = 0
    /\ kIn = NoKeyInput
    /\ kOut = NoKeys
    /\ nIn = NoNewsInput
    /\ cIn \in CatalystsInputs
    /\ cOut = NoCatalystsOut
    /\ MoreIdle

NextCatalysts == Catalysts

SpecCatalysts == InitCatalysts /\ [][NextCatalysts]_vars

SpecKey == InitKey /\ [][NextKey]_vars

InitMacro ==
    /\ svc = "macro"
    /\ BaseIdle
    /\ StockIdle /\ RepoIdle /\ RequestsIdle /\ WatchlistIdle
    /\ mIn \in Calendars
    /\ mSeen = {}

NextMacro ==
    \/ \E range \in MacroRanges : CallGetEvents(range)
    \/ \E range \in MacroRanges, user \in {NoUser, UserContext("u1")}, watchlist_id \in {"", "w1"},
          items \in ItemLists, fetched \in [1..2 -> {EarningsRaised}] :
          CallGetCatalysts(range, user, watchlist_id, items, fetched)

SpecMacro == InitMacro /\ [][NextMacro]_vars

InitStock ==
    /\ svc = "stock"
    /\ BaseIdle
    /\ MacroIdle /\ RepoIdle /\ RequestsIdle /\ WatchlistIdle
    /\ sIn \in StockInputs
    /\ sOut = NoStockOut

NextStock == Quote \/ Sma \/ History

SpecStock == InitStock /\ [][NextStock]_vars

InitRepo ==
    /\ svc = "repo"
    /\ BaseIdle
    /\ StockIdle /\ MacroIdle /\ RequestsIdle /\ WatchlistIdle
    /\ \E ops \in [RepoRequests -> RepoOps], users \in [RepoRequests -> RepoUsers] :
          proc = [p \in RepoRequests |-> RepoRequest(p, ops[p], users[p])]
    /\ \E backend \in Backends : file = [backend |-> backend, data |-> stored_before(proc)]

NextRepo == \E p \in RepoRequests : ReadAll(p) \/ WriteAll(p) \/ TableWrite(p)

SpecRepo == InitRepo /\ [][NextRepo]_vars

InitRequests ==
    /\ svc = "finnhub"
    /\ BaseIdle
    /\ StockIdle /\ MacroIdle /\ RepoIdle /\ WatchlistIdle
    /\ rq = FirstRequest

NextRequests ==
    \/ \E req \in Requests, ttl \in TtlChoices : GetJsonStart(req, ttl)
    \/ \E resp \in Responses : GetJsonAttempt(resp)
    \/ \E jitter \in Jitters : GetJsonSleep(jitter)
    \/ \E d \in TickSteps : Tick(d)
    \/ NewRequest

SpecRequests == InitRequests /\ [][NextRequests]_vars

InitWatchlist ==
    /\ svc = "watchlist"
    /\ BaseIdle
    /\ StockIdle /\ MacroIdle /\ RepoIdle /\ RequestsIdle
    /\ ws = NoWatchlistState

NextWatchlist ==
    \/ \E name \in WatchlistNames, symbols \in WatchlistSymbolLists :
          \E world \in Worlds(symbols) : CallCreateWatchlist(name, symbols, world)
    \/ \E name \in NewNames \cup {None}, symbols \in WatchlistSymbolLists \cup {NoSymbols} :
          \E world \in Worlds(symbols) : CallUpdateWatchlist(name, symbols, world)
    \/ \E d \in TickSteps : Tick(d)

SpecWatchlist == InitWatchlist /\ [][NextWatchlist]_vars

InitThreads ==
    /\ svc = "threads"
    /\ BaseIdle
    /\ StockIdle /\ MacroIdle /\ RequestsIdle /\ WatchlistIdle
    /\ file = NoFile
    /\ \E ops \in [Threads -> ThreadOps] : proc = [t \in Threads |-> Thread(ops[t])]

NextThreads ==
    \E t \in Threads :
        \/ EnterGet(t)
        \/ \E hit \in BOOLEAN : LeaveGet(t, hit)
        \/ \E answer \in {"ok", "transient", "error"} : Network(t, answer)
        \/ WakeUp(t)
        \/ EnterSet(t)
        \/ LeaveSet(t)

SpecThreads == InitThreads /\ [][NextThreads]_vars

InitStore ==
    /\ svc = "store"
    /\ BaseIdle
    /\ MoreIdle

NextStore ==
    \E user_id \in RepoUsers :
        \/ StoreCreate(user_id)
        \/ StoreList(user_id)
        \/ \E watchlist_id \in StoreIds :
              \/ StoreGet(user_id, watchlist_id)
              \/ StoreUpdate(user_id, watchlist_id)
              \/ StoreDelete(user_id, watchlist_id)

SpecStore == InitStore /\ [][NextStore]_vars

InitRace ==
    /\ svc = "repo"
    /\ BaseIdle
    /\ StockIdle /\ MacroIdle /\ RequestsIdle /\ WatchlistIdle
    /\ \E ops \in [RaceRequests -> RaceOps] : proc = [p \in RaceRequests |-> RaceRequest(ops[p])]
    /\ \E backend \in Backends : file = [backend |-> backend, data |-> stored_w1]

NextRace == \E p \in RaceRequests : GetWatchlist(p) \/ ReadAll(p) \/ WriteAll(p) \/ TableWrite(p)

SpecRace == InitRace /\ [][NextRace]_vars

---------------------------------------------------------------------------
(* Properties *)

NetCount(ev) == Cardinality({i \in DOMAIN ev : ev[i] = "net"})
SleepCount(ev) == Cardinality({i \in DOMAIN ev : ev[i] = "sleep"})

\* net, sleep, net, ..., net: every sleep lies between two attempts
Alternates(ev) ==
    /\ Len(ev) % 2 = 1
    /\ \A i \in DOMAIN ev : ev[i] = IF i % 2 = 1 THEN "net" ELSE "sleep"

\* the call of _get_json is over
Ended == pc = "idle" /\ outcome.kind # "none"

\* the call missed the cache and went to the network
Missed == events # <<>>

\* C1: with N = max(max_retries, 1) allowed attempts, a call whose first N-1
\* attempts were answered 429 and whose N-th attempt is answered 200 returns
\* the payload of that 200 after exactly N-1 sleeps, each between two attempts
\* and none after the last; and a call answered 429 every time gives up only
\* after its N-th attempt.
C1_RetryThenSuccess ==
    LET N == IF max_retries > 1 THEN max_retries ELSE 1
    IN  /\ (all429 /\ NetCount(events) = N /\ response.error = "" /\ response.status = 200)
            => /\ Ended
               /\ outcome = Returned(response.body)
               /\ SleepCount(events) = N - 1
               /\ Alternates(events)
        /\ (all429 /\ Missed /\ Ended /\ response.error = "" /\ response.status = 429)
            => NetCount(events) = N

C1_Witness ==
    /\ Ended /\ outcome.kind = "return" /\ all429
    /\ max_retries = DefaultMaxRetries
    /\ NetCount(events) = DefaultMaxRetries
    /\ outcome.value = "P1"

Is4xxNot429(e) ==
    e.type = "HTTPError" /\ 400 <= e.status /\ e.status <= 499 /\ e.status # 429

\* C2: a response with a 4xx status other than 429 is not retried: for every
\* max_retries >= 1 the call fails at once, after exactly one network call and
\* no sleep.
C2_NonRetryable4xx ==
    max_retries >= 1 =>
        /\ ~(pc = "sleep" /\ Is4xxNot429(last_exc))
        /\ (Ended /\ outcome.kind = "raise" /\ Is4xxNot429(outcome.exc))
             => events = <<"net">>

IsTransient(e) ==
    \/ e.type \in {"Timeout", "ConnectionError"}
    \/ e.type = "HTTPError" /\ (e.status = 429 \/ (500 <= e.status /\ e.status <= 599))

\* C3: a call makes at most max(max_retries, 1) network calls, goes on to
\* another attempt only after a 429/5xx response, a timeout or a connection
\* error and only while attempts remain, and ends returning or raising.
C3_BoundedAttempts ==
    LET N == IF max_retries > 1 THEN max_retries ELSE 1
    IN  /\ NetCount(events) <= N
        /\ pc = "sleep" => (IsTransient(last_exc) /\ NetCount(events) < N)
        /\ (pc = "idle" /\ calls > 0 /\ svc = "finnhub") => outcome.kind \in {"return", "raise"}

\* C4: when the lookup meets an unexpired entry, _get_json, get_company_news
\* and get_watchlist_news return the cached value with no network call, no
\* retry and no sleep.
C4_HitNoUpstream ==
    /\ (svc = "finnhub" /\ call.found = "fresh")
         => /\ pc = "idle"
            /\ events = <<>>
            /\ outcome = Returned(call.cache0[call.key].value)
    /\ (newsOut.op \in {"get_company_news", "get_watchlist_news"} /\ newsOut.found = "fresh")
         => /\ newsOut.out.net = 0
            /\ newsOut.asked = <<>>
            /\ newsOut.out.kind = "return"
            /\ newsOut.out.value = newsOut.cache0[newsOut.key].value

\* C5: an entry is never returned once now >= expiry: a lookup at or after the
\* expiry is a miss. _get_json goes to the network, get_company_news fetches
\* from upstream, get_watchlist_news computes the aggregate again.
C5_ExpiredIsMiss ==
    /\ (svc = "finnhub" /\ call.found = "expired")
         => (pc = "attempt" \/ Missed)
    /\ (newsOut.op = "get_company_news" /\ newsOut.found = "expired")
         => (newsOut.out.net = 1 /\ ~newsOut.hit)
    /\ (newsOut.op = "get_watchlist_news" /\ newsOut.found = "expired")
         => (~newsOut.hit /\ newsOut.asked # <<>>)

C5_Witness ==
    \/ /\ svc = "finnhub" /\ call.found = "expired"
       /\ call.cache0[call.key].expires_at = call.at
       /\ Ended /\ outcome.kind = "return"
    \/ /\ newsOut.op = "get_company_news" /\ newsOut.found = "expired"
       /\ newsOut.cache0[newsOut.key].expires_at = newsOut.at

\* C6: after a lookup of a key whose entry has expired, that entry is no
\* longer in the cache map (FinnhubService._cache_get and the news-cache
\* lookups of get_company_news and get_watchlist_news).
C6_ExpiredEvicted ==
    /\ (svc = "finnhub" /\ call.found = "expired" /\ call.key \in DOMAIN fhCache)
         => fhCache[call.key] # call.cache0[call.key]
    /\ (newsOut.found = "expired" /\ newsOut.key \in DOMAIN newsCache)
         => newsCache[newsOut.key] # newsOut.cache0[newsOut.key]

\* C7 as claimed: after a call that fails the cache map is as it was, and after
\* a call that succeeds the payload is stored under the request's key with the
\* caller's TTL.
C7_WrittenOnlyOnSuccess ==
    /\ (Ended /\ outcome.kind = "raise") => fhCache = call.cache0
    /\ (Ended /\ outcome.kind = "return" /\ Missed)
         => (call.key \in DOMAIN fhCache /\ fhCache[call.key].value = outcome.value)
    /\ newsOut.out.kind = "raise" => newsCache = newsOut.cache0
    /\ (newsOut.out.kind = "return" /\ ~newsOut.hit)
         => /\ newsOut.key \in DOMAIN newsCache
            /\ newsCache[newsOut.key] =
                   [expires_at |-> newsOut.at + CACHE_TTL_SECONDS * TicksPerSecond,
                    value |-> newsOut.out.value]

\* the map m without key k
Without(m, k) == [x \in DOMAIN m \ {k} |-> m[x]]

\* the keys on which two maps differ
Changed(m1, m2) ==
    {k \in DOMAIN m1 \cup DOMAIN m2 :
        ~(k \in DOMAIN m1 /\ k \in DOMAIN m2 /\ m1[k] = m2[k])}

C7_State ==
    /\ (Ended /\ outcome.kind = "raise")
         => \/ fhCache = call.cache0
            \/ call.found = "expired" /\ fhCache = Without(call.cache0, call.key)
    /\ (Ended /\ outcome.kind = "return" /\ Missed /\ call.ttl > 0)
         => (call.key \in DOMAIN fhCache /\ fhCache[call.key].value = outcome.value)
    /\ (Ended /\ outcome.kind = "return" /\ Missed /\ call.ttl <= 0)
         => \/ fhCache = call.cache0
            \/ call.found = "expired" /\ fhCache = Without(call.cache0, call.key)
    /\ (newsOut.op = "get_company_news" /\ newsOut.out.kind = "raise")
         => newsCache = newsOut.cache0
    /\ (newsOut.op = "get_watchlist_news" /\ newsOut.out.kind = "raise")
         => /\ newsOut.key \notin Changed(newsOut.cache0, newsCache)
            /\ \A k \in Changed(newsOut.cache0, newsCache) :
                   /\ k.kind = "symbol"
                   /\ \E i \in 1..(Len(newsOut.asked) - 1) : k.symbols = <<newsOut.asked[i]>>
                   /\ newsCache[k].expires_at =
                          newsOut.at + CACHE_TTL_SECONDS * TicksPerSecond
    /\ (newsOut.out.kind = "return" /\ ~newsOut.hit)
         => /\ newsOut.key \in DOMAIN newsCache
            /\ newsCache[newsOut.key] =
                   [expires_at |-> newsOut.at + CACHE_TTL_SECONDS * TicksPerSecond,
                    value |-> newsOut.out.value]

\* the step of _get_json that returns the payload of a response
C7_Step ==
    (pc = "attempt" /\ outcome'.kind = "return")
        => fhCache' = IF call.ttl > 0
                      THEN (call.key :> [expires_at |-> now' + call.ttl * TicksPerSecond,
                                         value |-> outcome'.value]) @@ fhCache
                      ELSE fhCache

\* C7, amended: a failing _get_json adds and replaces no entry (its lookup may
\* have evicted the expired entry of its own key); a successful one stores the
\* payload under its key, expiring ttl seconds after the store, when ttl > 0
\* and stores nothing when ttl <= 0. A failing get_company_news leaves the map
\* unchanged. A failing get_watchlist_news writes no aggregate entry; it
\* leaves the entries of the symbols it fetched before the failure. A
\* successful get_company_news or get_watchlist_news stores its result under
\* its key, expiring 300 seconds after the time the call read.
C7_WrittenOnlyOnSuccessAmended == [](C7_State) /\ [][C7_Step]_vars

C7_Witness ==
    \/ /\ Ended /\ outcome.kind = "raise" /\ call.found = "expired"
       /\ fhCache # call.cache0
    \/ /\ newsOut.op = "get_watchlist_news" /\ newsOut.out.kind = "raise"
       /\ newsCache # newsOut.cache0

\* the non-secret items of a params dict
SafeItems(d) == {d[i] : i \in {j \in 1..Len(d) : d[j][1] # "token"}}

\* C8: two _cache_key computations on the same path whose params hold the same
\* non-secret items, in any insertion order and with any token value (or
\* none), give the same key.
C8_KeyIgnoresToken ==
    (kOut # NoKeys /\ SafeItems(kIn.a) = SafeItems(kIn.b)) => kOut.a = kOut.b

C8_Witness ==
    /\ kOut # NoKeys
    /\ kIn.a = << <<"token", "K1">>, <<"symbol", "AAPL">>, <<"from", "2024-01-01">> >>
    /\ kIn.b = << <<"from", "2024-01-01">>, <<"symbol", "AAPL">>, <<"token", "K2">> >>
    /\ kOut.a = "/stock/profile2?from=2024-01-01&symbol=AAPL"

\* C9: a get_watchlist_news call is served from the aggregation cache only if
\* an aggregate for the same symbols and limits was computed under the same
\* cacheVersion; after updated_utc has changed the call misses and fetches the
\* news of every selected symbol again, also within 300 seconds.
C9_VersionInvalidates ==
    newsOut.op = "get_watchlist_news" =>
        /\ newsOut.hit =>
              \E a \in aggregates :
                  /\ a.version = newsOut.version
                  /\ a.per_symbol_limit = newsOut.key.per_symbol_limit
                  /\ {a.symbols[i] : i \in 1..Len(a.symbols)}
                         = {newsOut.key.symbols[i] : i \in 1..Len(newsOut.key.symbols)}
        /\ (~newsOut.hit /\ newsOut.out.kind = "return")
              => {newsOut.asked[i] : i \in 1..Len(newsOut.asked)}
                     = {newsOut.key.symbols[i] : i \in 1..Len(newsOut.key.symbols)}

C9_Witness ==
    /\ newsOut.op = "get_watchlist_news" /\ ~newsOut.hit /\ newsOut.out.kind = "return"
    /\ \E k \in DOMAIN newsOut.cache0 :
          /\ k.kind = "aggregation"
          /\ k.cache_version # newsOut.version
          /\ [k EXCEPT !.cache_version = newsOut.version] = newsOut.key
          /\ newsOut.cache0[k].expires_at > newsOut.at

\* C10: a failure of get_company_news for one symbol does not abort
\* get_watchlist_news: the call still returns (the articles of the symbols
\* that succeeded) and the handler answers 200.
C10_FailureDoesNotAbort ==
    (newsOut.op = "get_watchlist_news" /\ api_key # "" /\ newsOut.asked # <<>>)
        => (newsOut.out.kind = "return" /\ newsOut.http = 200)

\* the upper-cased, stripped form of the symbols of the inputs
Canon(s) ==
    IF s \in {"aapl", "AAPL"} THEN "AAPL"
    ELSE IF s \in {"msft", " msft ", "MSFT"} THEN "MSFT"
    ELSE ""

\* the positions of the symbols argument that survive: the first occurrence of
\* each non-empty symbol, then the filter, then the first max_symbols of those
FirstOccurrences ==
    {i \in 1..Len(nIn.symbols) :
        /\ Canon(nIn.symbols[i]) # ""
        /\ \A j \in 1..(i - 1) : Canon(nIn.symbols[j]) # Canon(nIn.symbols[i])}

Filtered ==
    {i \in FirstOccurrences :
        nIn.symbol_filter = "" \/ Canon(nIn.symbols[i]) = Canon(nIn.symbol_filter)}

Chosen == {i \in Filtered : Cardinality({j \in Filtered : j < i}) < nIn.max_symbols}

NthChosen(k) == CHOOSE i \in Chosen : Cardinality({j \in Chosen : j < i}) = k - 1

IsWatchlistCall == newsOut.op = "get_watchlist_news"

\* C12: get_watchlist_news strips and upper-cases its symbols, keeps the first
\* occurrence of each non-empty one in order, restricts them to the symbol
\* filter if one is given, and keeps the first maxSymbols of the rest; the
\* aggregation key holds exactly these symbols, they are fetched in that order
\* and no other symbol is fetched or stored.
C12_Normalisation ==
    IsWatchlistCall =>
        /\ {newsOut.key.symbols[i] : i \in 1..Len(newsOut.key.symbols)}
               = {Canon(nIn.symbols[i]) : i \in Chosen}
        /\ Len(newsOut.asked) <= Cardinality(Chosen)
        /\ \A k \in 1..Len(newsOut.asked) : newsOut.asked[k] = Canon(nIn.symbols[NthChosen(k)])
        /\ (newsOut.out.kind = "return" /\ ~newsOut.hit)
               => Len(newsOut.asked) = Cardinality(Chosen)
        /\ \A key \in Changed(newsOut.cache0, newsCache) :
               key.kind = "symbol" => key.symbols[1] \in {Canon(nIn.symbols[i]) : i \in Chosen}

C12_Witness ==
    /\ IsWatchlistCall /\ newsOut.out.kind = "return" /\ ~newsOut.hit
    /\ nIn.symbols = <<"aapl", "AAPL", "msft">>
    /\ nIn.symbol_filter = ""
    /\ nIn.max_symbols = DefaultMaxSymbols
    /\ newsOut.asked = <<"AAPL", "MSFT">>

CountTagged(res, sym) == Cardinality({i \in DOMAIN res : res[i].symbol = sym})

\* C13 as claimed: for every value of the limits the result has at most
\* totalLimit articles and at most perSymbolLimit articles of any one symbol.
C13_CapsRespected ==
    (IsWatchlistCall /\ newsOut.out.kind = "return") =>
        /\ Len(newsOut.out.value) <= nIn.total_limit
        /\ \A sym \in {"AAPL", "MSFT"} :
               CountTagged(newsOut.out.value, sym) <= nIn.per_symbol_limit

\* a limit as the code reads it: at least 1
Cap(n) == IF n >= 1 THEN n ELSE 1

\* C13, amended: the result has at most max(1, totalLimit) articles and at
\* most max(1, perSymbolLimit) articles tagged with any one symbol, also when
\* a symbol's own news holds more; the limits themselves are respected when
\* they are at least 1.
C13_CapsRespectedAmended ==
    (IsWatchlistCall /\ newsOut.out.kind = "return") =>
        /\ Len(newsOut.out.value) <= Cap(nIn.total_limit)
        /\ \A sym \in {"AAPL", "MSFT"} :
               CountTagged(newsOut.out.value, sym) <= Cap(nIn.per_symbol_limit)

C13_Witness ==
    /\ IsWatchlistCall /\ newsOut.out.kind = "return"
    /\ nIn.per_symbol_limit = 1
    /\ CountTagged(newsOut.out.value, "AAPL") = 1
    /\ Len(newsCache[SymbolKey("AAPL", DefaultDays)].value) > 1

\* the news of a selected symbol: what get_company_news gave for it
OwnNews(sym) == newsCache[SymbolKey(sym, DefaultDays)].value

SelectedSet == {newsOut.key.symbols[i] : i \in 1..Len(newsOut.key.symbols)}

\* the first p items of each selected symbol's news, by symbol and position
Candidates(p) ==
    {c \in SelectedSet \X (1..CompanyNewsLimit) : c[2] <= p /\ c[2] <= Len(OwnNews(c[1]))}

Tag(c) == [OwnNews(c[1])[c[2]] EXCEPT !.symbol = c[1]]

\* res is the merge of the first p items of each selected symbol, tagged,
\* sorted by timestamp descending and cut to t articles
IsMerge(res, p, t) ==
    /\ Len(res) = (IF t <= Cardinality(Candidates(p)) THEN t ELSE Cardinality(Candidates(p)))
    /\ \A i \in DOMAIN res : \E c \in Candidates(p) : res[i] = Tag(c)
    /\ \A i, j \in DOMAIN res : res[i] = res[j] => i = j
    /\ \A i \in 1..(Len(res) - 1) : res[i].datetime >= res[i + 1].datetime
    /\ \A c \in Candidates(p) :
           (\A i \in DOMAIN res : res[i] # Tag(c))
               => \A i \in DOMAIN res : res[i].datetime >= Tag(c).datetime

\* the per-symbol cached lists carry no symbol tag
ListsUntagged ==
    \A key \in DOMAIN newsCache :
        key.kind = "symbol" =>
            \A i \in DOMAIN newsCache[key].value : newsCache[key].value[i].symbol = None

\* C14 as claimed: the result is the merge of the first perSymbolLimit items of
\* each selected symbol's news, tagged, sorted by timestamp descending and
\* truncated to totalLimit, and the per-symbol cached lists are unmodified.
C14_MergeOfOwnNews ==
    (IsWatchlistCall /\ newsOut.out.kind = "return") =>
        /\ IsMerge(newsOut.out.value, nIn.per_symbol_limit, nIn.total_limit)
        /\ ListsUntagged

\* C14, amended: the result is the merge of the first max(1, perSymbolLimit)
\* items of each selected symbol's news, each tagged with its symbol, sorted by
\* timestamp descending and truncated to max(1, totalLimit); the per-symbol
\* cached lists carry no symbol tag.
C14_MergeOfOwnNewsAmended ==
    (IsWatchlistCall /\ newsOut.out.kind = "return") =>
        /\ IsMerge(newsOut.out.value, Cap(nIn.per_symbol_limit), Cap(nIn.total_limit))
        /\ ListsUntagged

C14_Witness ==
    /\ IsWatchlistCall /\ newsOut.out.kind = "return" /\ ~newsOut.hit
    /\ Len(newsOut.asked) = 2
    /\ nIn.total_limit = 2
    /\ Len(newsOut.out.value) = 2
    /\ Cardinality(Candidates(nIn.per_symbol_limit)) > 2
    /\ newsOut.out.value[1].symbol # newsOut.out.value[2].symbol

\* the provider's items that have a headline, by position
WithHeadline == {i \in DOMAIN nIn.resp.body : nIn.resp.body[i].headline # ""}

\* C15: get_company_news returns at most 10 articles, each with a non-empty
\* headline, sorted by timestamp descending; on a fetch they are the 10 most
\* recent of the provider's items that have a headline, and the result is
\* stored under (upper-cased symbol, days) with an expiry 300 seconds later; a
\* call within those 300 seconds returns the stored list.
C15_CompanyNews ==
    (newsOut.op = "get_company_news" /\ newsOut.out.kind = "return") =>
        LET res == newsOut.out.value
            key == SymbolKey(Canon(nIn.symbol), DefaultDays)
        IN  /\ Len(res) <= CompanyNewsLimit
            /\ \A i \in DOMAIN res : res[i].headline # ""
            /\ \A i \in 1..(Len(res) - 1) : res[i].datetime >= res[i + 1].datetime
            /\ newsOut.key = key
            /\ ~newsOut.hit =>
                  /\ Len(res) = (IF Cardinality(WithHeadline) <= CompanyNewsLimit
                                 THEN Cardinality(WithHeadline) ELSE CompanyNewsLimit)
                  /\ \A i \in DOMAIN res : \E j \in WithHeadline : res[i] = nIn.resp.body[j]
                  /\ \A i, j \in DOMAIN res : res[i] = res[j] => i = j
                  /\ \A j \in WithHeadline :
                         (\A i \in DOMAIN res : res[i] # nIn.resp.body[j])
                             => \A i \in DOMAIN res :
                                    res[i].datetime >= nIn.resp.body[j].datetime
                  /\ newsCache[key] =
                         [expires_at |-> newsOut.at + CACHE_TTL_SECONDS * TicksPerSecond,
                          value |-> res]
            /\ newsOut.hit =>
                  /\ newsOut.cache0[key].value = res
                  /\ newsOut.cache0[key].expires_at > newsOut.at

C15_Witness ==
    /\ newsOut.op = "get_company_news" /\ newsOut.out.kind = "return" /\ ~newsOut.hit
    /\ nIn.symbol = "aapl"
    /\ Cardinality(WithHeadline) > CompanyNewsLimit
    /\ Len(newsOut.out.value) = CompanyNewsLimit
    /\ newsOut.key.symbols = <<"AAPL">>

\* the answer of get_catalysts, when the handler has answered with one
Answer == cOut.body
Answered == cOut.http = 200 /\ Answer.kind = "return"

\* the request names the stored watchlist of its user
Resolves == cIn.user.user_id = "u1" /\ cIn.watchlist_id = "w1"

\* the items whose earnings fetch failed
FailedItems == {i \in 1..Len(cIn.items) : cIn.fetched[i].kind = "raise"}

\* the earnings entries that give an event: item i succeeded, entry k is dated
DatedEntries ==
    {p \in (1..Len(cIn.items)) \X (1..3) :
        /\ p[1] \notin FailedItems
        /\ p[2] <= Len(cIn.fetched[p[1]].value)
        /\ cIn.fetched[p[1]].value[p[2]].date # 0}

\* a curated item that is an event of the requested range
InRange(r) ==
    /\ r.utc_time # NoTime
    /\ r.title # ""
    /\ FromDate <= r.utc_time[1]
    /\ r.utc_time[1] <= ToDate

Stripped(title) == IF title = " Alpha " THEN "Alpha" ELSE title

\* the curated item r is an event of the answer
Present(r) ==
    \E j \in DOMAIN Answer.events :
        /\ Answer.events[j].type = "macro"
        /\ Answer.events[j].utc_time = r.utc_time
        /\ Answer.events[j].title = Stripped(r.title)

\* the country set of the stored watchlist
CountrySet ==
    {IF cIn.items[i].country = "us" THEN "US" ELSE cIn.items[i].country :
        i \in {j \in 1..Len(cIn.items) : cIn.items[j].country \notin {None, ""}}}

TwoLetter(r) == r.country \notin {None, ""} /\ Len(r.country) = 2

\* the country filter drops the curated item r
CountryDropped(r) ==
    Resolves /\ CountrySet # {} /\ TwoLetter(r) /\ r.country \notin CountrySet

CuratedItems == {cIn.raw[k] : k \in DOMAIN cIn.raw}

\* C11: when the earnings fetch fails for some symbol of the watchlist, every
\* symbol is still fetched, the call returns (HTTP 200) with the events of the
\* symbols that succeeded and the macro events, and providers.earnings is
\* "degraded", also when later symbols succeed; it is "ok" only when no symbol
\* failed.
C11_EarningsDegrade ==
    (Resolves /\ cOut # NoCatalystsOut) =>
        /\ Answered
        /\ Answer.asked = [i \in 1..Len(cIn.items) |-> cIn.items[i].symbol]
        /\ Answer.providers.earnings = (IF FailedItems = {} THEN "ok" ELSE "degraded")
        /\ \A p \in DatedEntries :
               \E j \in DOMAIN Answer.events :
                   /\ Answer.events[j].type = "earnings"
                   /\ Answer.events[j].symbol = cIn.items[p[1]].symbol
                   /\ Answer.events[j].date = cIn.fetched[p[1]].value[p[2]].date
        /\ \A j \in DOMAIN Answer.events :
               Answer.events[j].type = "earnings" =>
                   \E p \in DatedEntries : Answer.events[j].symbol = cIn.items[p[1]].symbol
        /\ \A r \in CuratedItems : (InRange(r) /\ ~CountryDropped(r)) => Present(r)

C11_Witness ==
    /\ Resolves /\ Answered
    /\ Len(cIn.items) = 2
    /\ FailedItems = {1}
    /\ Answer.providers.earnings = "degraded"
    /\ \E j \in DOMAIN Answer.events :
           Answer.events[j].type = "earnings" /\ Answer.events[j].symbol = "MSFT"
    /\ \E j \in DOMAIN Answer.events : Answer.events[j].type = "macro"

\* C16: when a watchlist id is given, the request is answered with that
\* watchlist's filtered view or fails with 'Watchlist not found' (or is refused
\* for want of a user before get_catalysts is called); it is never answered
\* with the unfiltered view.
C16_NoSilentFallback ==
    (cOut # NoCatalystsOut /\ cIn.watchlist_id # "") =>
        \/ cOut.http = 401
        \/ Answered /\ Answer.watchlist_id = cIn.watchlist_id
        \/ cOut.http = 404 /\ Answer.kind = "raise" /\ Answer.error = "Watchlist not found"

\* event a is timed before event b
Earlier(a, b) ==
    \/ a.utc_time[1] < b.utc_time[1]
    \/ a.utc_time[1] = b.utc_time[1] /\ a.utc_time[2] < b.utc_time[2]

\* C17: the events of a response are the surviving earnings and macro events,
\* ascending by (timestamp, title): of two adjacent events the first has the
\* smaller timestamp, or the same timestamp and a title that is not greater.
C17_EventsSorted ==
    Answered =>
        /\ \A j \in 1..(Len(Answer.events) - 1) :
               \/ Earlier(Answer.events[j], Answer.events[j + 1])
               \/ /\ Answer.events[j].utc_time = Answer.events[j + 1].utc_time
                  /\ ~StrLess(Answer.events[j + 1].title, Answer.events[j].title)
        /\ Len(Answer.events) =
               (IF Resolves THEN Cardinality(DatedEntries) ELSE 0)
               + Cardinality({k \in DOMAIN cIn.raw :
                                 InRange(cIn.raw[k]) /\ ~CountryDropped(cIn.raw[k])})

C17_Witness ==
    /\ Answered
    /\ \E i, j, k \in DOMAIN Answer.events :
          /\ i < j /\ j < k
          /\ Answer.events[i].title = "AAPL earnings"
          /\ Answer.events[j].title = "Alpha"
          /\ Answer.events[k].title = "Zeta"
          /\ Answer.events[i].utc_time = Answer.events[k].utc_time
          /\ Answer.events[j].utc_time = Answer.events[k].utc_time

\* C18 as claimed: with a watchlist active an event with a 2-letter country
\* that is not in the watchlist's country set is excluded; an event with no
\* country or a country that is not 2 letters long is retained; with no
\* watchlist no event is excluded.
C18_CountryFilter ==
    Answered =>
        \A r \in CuratedItems :
            InRange(r) =>
                /\ (Resolves /\ TwoLetter(r) /\ r.country \notin CountrySet) => ~Present(r)
                /\ ~TwoLetter(r) => Present(r)
                /\ ~Resolves => Present(r)

\* C18, amended: with a watchlist active whose country set is not empty, an
\* event with a 2-letter country that is not in the set is excluded; an event
\* with no country or a country that is not 2 letters long is retained; with
\* no watchlist active, or a watchlist none of whose items has a country, no
\* event is excluded.
C18_CountryFilterAmended ==
    Answered =>
        \A r \in CuratedItems :
            InRange(r) =>
                /\ (Resolves /\ CountrySet # {} /\ TwoLetter(r) /\ r.country \notin CountrySet)
                       => ~Present(r)
                /\ ~TwoLetter(r) => Present(r)
                /\ (~Resolves \/ CountrySet = {}) => Present(r)

C18_Witness ==
    /\ Answered /\ Resolves
    /\ CountrySet = {"US"}
    /\ \E r \in CuratedItems : InRange(r) /\ r.country = "DE" /\ ~Present(r)
    /\ \E r \in CuratedItems : InRange(r) /\ r.country = "Euro Area" /\ Present(r)
    /\ \E r \in CuratedItems : InRange(r) /\ r.country = None /\ Present(r)

\* the sector set of the stored watchlist
SectorSet ==
    {cIn.items[i].sector :
        i \in {j \in 1..Len(cIn.items) : cIn.items[j].sector \notin {None, ""}}}

\* C19: a curated event of the requested range that passes the country filter
\* is in the response, with its sectors, whatever the sectors of the watchlist
\* and of the event are.
C19_NoSectorFilter ==
    Answered =>
        \A r \in CuratedItems :
            (InRange(r) /\ ~CountryDropped(r)) =>
                \E j \in DOMAIN Answer.events :
                    /\ Answer.events[j].type = "macro"
                    /\ Answer.events[j].utc_time = r.utc_time
                    /\ Answer.events[j].title = Stripped(r.title)
                    /\ Answer.events[j].sectors = SelectSeq(r.sectors, LAMBDA x : x # "")

C19_Witness ==
    /\ Answered /\ Resolves
    /\ SectorSet = {"Technology"}
    /\ \E j \in DOMAIN Answer.events :
          /\ Answer.events[j].type = "macro"
          /\ Answer.events[j].sectors = <<"Energy">>
    /\ \E j \in DOMAIN Answer.events :
          /\ Answer.events[j].type = "macro"
          /\ Answer.events[j].sectors = <<>>

NoEventInRange == \A r \in CuratedItems : ~InRange(r)

\* C20 as claimed: each provider status is one of ok, degraded, curated_empty,
\* skipped_no_watchlist; earnings is skipped_no_watchlist exactly when no
\* watchlist is active, macro is curated_empty exactly when the curated
\* calendar has no event in the requested range.
C20_ProviderStatuses ==
    Answered =>
        /\ Answer.providers.earnings
               \in {"ok", "degraded", "curated_empty", "skipped_no_watchlist"}
        /\ Answer.providers.macro
               \in {"ok", "degraded", "curated_empty", "skipped_no_watchlist"}
        /\ (Answer.providers.earnings = "skipped_no_watchlist") <=> ~Resolves
        /\ (Answer.providers.macro = "curated_empty") <=> NoEventInRange

\* C20, amended: providers.earnings is one of ok, degraded,
\* skipped_no_watchlist and providers.macro is one of curated, curated_empty;
\* earnings is skipped_no_watchlist exactly when no watchlist is active, macro
\* is curated_empty exactly when the curated calendar has no event in the
\* requested range and curated otherwise.
C20_ProviderStatusesAmended ==
    Answered =>
        /\ Answer.providers.earnings \in {"ok", "degraded", "skipped_no_watchlist"}
        /\ Answer.providers.macro \in {"curated", "curated_empty"}
        /\ (Answer.providers.earnings = "skipped_no_watchlist") <=> ~Resolves
        /\ (Answer.providers.macro = "curated_empty") <=> NoEventInRange

C20_Witness ==
    /\ Answered
    /\ Answer.providers.earnings = "skipped_no_watchlist"
    /\ Answer.providers.macro = "curated_empty"
    /\ cIn.raw # <<>>

\* two returned events are the same logical event
SameLogicalEvent(a, b) ==
    /\ a.e.utc_time = b.e.utc_time
    /\ a.e.title = b.e.title
    /\ a.e.country = b.e.country
    /\ a.e.impact = b.e.impact

\* C21: over any number of get_events and get_catalysts calls on the same
\* curated data, two returned macro events with the same utc_time, title,
\* country and impact have the same id, whatever the date range and the
\* watchlist of the calls and whatever the other fields of the events are;
\* events that differ in one of the four have different ids.
C21_StableMacroIds ==
    \A a, b \in mSeen : SameLogicalEvent(a, b) <=> a.e.id = b.e.id

C21_Witness ==
    \E a, b \in mSeen :
        /\ a.call # b.call
        /\ a.via = "get_events" /\ b.via = "get_catalysts"
        /\ a.range # b.range
        /\ b.watchlist_id = "w1"
        /\ a.e.sectors # b.e.sectors
        /\ SameLogicalEvent(a, b)
        /\ a.e.id = b.e.id

\* the answer to GET /history/{symbol} and the points of its history
Chart == sOut.out.value
Points == Chart.history
HistoryAnswered == sIn.op = "history" /\ sOut.http = 200

\* the provider answered with a payload / failed (status or network error)
Fetched(answer) == answer.error = "" /\ answer.status = 200
FetchFailed(answer) == answer.error # "" \/ answer.status >= 400

\* the entries of the provider's daily series whose close is a number: the
\* series that get_daily_prices gives
DailyEntries ==
    {i \in 1..Len(sIn.daily.body) : sIn.daily.body[i].close.n >= 0}

\* the dates of the SMA map of get_sma: the SmaKeep latest dates of the
\* provider's technical data, none when the fetch failed
SmaDates(answer) ==
    IF Fetched(answer)
    THEN {d \in DOMAIN answer.body :
             Cardinality({k \in DOMAIN answer.body : k > d}) < SmaKeep}
    ELSE {}

\* the point carries the field exactly when its date is in the map, with
\* the value of the map entry
Joined(point, field, answer) ==
    /\ field \in DOMAIN point <=> point.date \in SmaDates(answer)
    /\ field \in DOMAIN point => point[field] = answer.body[point.date].n

\* C22: the points of get_full_chart_data are the points of the daily-price
\* series, none added or removed, in ascending date order; a point has the
\* field sma50 (sma200) exactly when its date is a key of the SMA50 (SMA200)
\* map that get_sma returned, with the value of that entry, and has no such
\* field otherwise.
C22_ChartJoin ==
    HistoryAnswered =>
        /\ Len(Points) = Cardinality(DailyEntries)
        /\ \A i \in DailyEntries :
               \E j \in DOMAIN Points :
                   /\ Points[j].date = sIn.daily.body[i].date
                   /\ Points[j].close = sIn.daily.body[i].close.n
        /\ \A j \in 1..(Len(Points) - 1) : Points[j].date < Points[j + 1].date
        /\ \A j \in DOMAIN Points :
               /\ Joined(Points[j], "sma50", sIn.a50)
               /\ Joined(Points[j], "sma200", sIn.a200)
               /\ DOMAIN Points[j] \subseteq {"date", "close", "sma50", "sma200"}

C22_Witness ==
    /\ HistoryAnswered
    /\ Len(Points) = 4
    /\ sIn.daily.body[1].date > sIn.daily.body[2].date
    /\ DOMAIN Points[1] = {"date", "close"}
    /\ Points[1].date \in DOMAIN sIn.a50.body
    /\ DOMAIN Points[2] = {"date", "close", "sma200"}
    /\ DOMAIN Points[3] = {"date", "close", "sma50", "sma200"}
    /\ Points[3].sma50 # Points[3].sma200

\* C23: when the fetch of an SMA series fails, GET /history answers 200, no
\* point has a field of that series and its latest_sma value is null, while
\* the other series is joined as usual; when the fetch of the daily prices
\* fails the call fails and nothing is returned (HTTP 500).
C23_ChartFailureModes ==
    (sIn.op = "history" /\ sIn.key # "" /\ sOut.http # 0) =>
        /\ FetchFailed(sIn.daily) =>
               /\ sOut.http = 500
               /\ sOut.out.kind = "raise"
               /\ sOut.out.value = <<>>
        /\ Fetched(sIn.daily) =>
               /\ sOut.http = 200
               /\ FetchFailed(sIn.a50) =>
                      /\ Chart.latest_sma.sma50 = Null
                      /\ \A j \in DOMAIN Points : "sma50" \notin DOMAIN Points[j]
               /\ FetchFailed(sIn.a200) =>
                      /\ Chart.latest_sma.sma200 = Null
                      /\ \A j \in DOMAIN Points : "sma200" \notin DOMAIN Points[j]
               /\ (Fetched(sIn.a50) /\ DOMAIN sIn.a50.body # {}) =>
                      ~Chart.latest_sma.sma50.null
               /\ (Fetched(sIn.a200) /\ DOMAIN sIn.a200.body # {}) =>
                      ~Chart.latest_sma.sma200.null

C23_Witness ==
    /\ HistoryAnswered
    /\ FetchFailed(sIn.a50)
    /\ Chart.latest_sma.sma50 = Null
    /\ ~Chart.latest_sma.sma200.null
    /\ \E j \in DOMAIN Points : DOMAIN Points[j] = {"date", "close", "sma200"}

\* C24: with the API key unset, GET /quote, GET /sma and GET /history answer
\* 503, never 404, 500 or 200.
C24_NotConfiguredIs503 ==
    (sIn.key = "" /\ sOut.http # 0) => sOut.http = 503

\* C25: the configured API key occurs in no logged line and in no response
\* body, also when the upstream call failed.
C25_KeyNeverLogged ==
    (sIn.key # "" /\ sOut.http # 0) =>
        /\ \A i \in DOMAIN sOut.log : ~Contains(sOut.log[i], sIn.key)
        /\ ~Contains(sOut.error, sIn.key)

\* the provider's answer is a transient failure: 429, 5xx or a timeout
TransientAnswer(answer) ==
    answer.error = "Timeout" \/ answer.status = 429
        \/ (answer.status >= 500 /\ answer.status <= 599)

\* C30: a call of get_quote that receives a transient failure is tried again
\* before the failure is surfaced.
C30_QuoteRetried ==
    (sIn.op = "quote" /\ sIn.key # "" /\ sOut.http # 0 /\ TransientAnswer(sIn.quote)) =>
        sOut.out.net > 1


\* the write of request p is in the store
Reflected(p) ==
    IF proc[p].op = "delete"
    THEN ~existed_in(file.data, proc[p].user_id, proc[p].watchlist_id)
    ELSE /\ existed_in(file.data, proc[p].user_id, proc[p].watchlist_id)
         /\ file.data[proc[p].user_id][proc[p].watchlist_id] = proc[p].payload

\* C26: concurrent create / upsert / delete calls on different watchlists, each through its
\* own repository object, lose no completed write: the write of every request that has
\* returned is in the store
C26_NoLostWrite == \A p \in DOMAIN proc : proc[p].pc = "done" => Reflected(p)


\* the last call belongs to the request being served; the request before it cached a
\* payload under the key of the call, and the entry was alive when the call looked it up
CachedByEarlierRequest ==
    /\ rq.n > 1
    /\ calls > rq.since
    /\ call.key \in DOMAIN rq.left
    /\ rq.left[call.key].value # None
    /\ ~fh_expired(rq.left[call.key].expires_at, call.at)

\* C27: the cache is shared by the requests of the process: a call whose key an earlier
\* request cached, within the time to live, ends without a network call and returns
\* the cached payload
C27_CacheSharedByRequests ==
    (Ended /\ CachedByEarlierRequest /\ call.cache0 = new_cache)
        => (events = <<>> /\ outcome = Returned(rq.left[call.key].value))


\* the last operation built the items anew, and there was a watchlist to work on
Enriching == ws.last.symbols # NoSymbols /\ ws.last.result # NoSuchWatchlist

\* the profile lookup of the symbol fails: no credential, an error after the retries,
\* or an empty object (unknown symbol)
LookupFails(symbol) ==
    \/ ws.last.world.key = ""
    \/ ws.last.world.answers[symbol].kind = "raise"
    \/ ws.last.world.answers[symbol].value = <<>>

\* what the provider's profile of the symbol says, and the sector of its industry
ProfileSays(symbol) ==
    IF symbol = "AAPL"
    THEN [country |-> "US", industry |-> "Technology", sector |-> "Technology"]
    ELSE [country |-> None, industry |-> " Commercial Banks", sector |-> "Financials"]

ItemEnrichment(item) ==
    [country |-> item.country, industry |-> item.industry, sector |-> item.sector]

\* C28: enrichment is best effort: a create or update whose profile lookup fails for a
\* symbol still succeeds and stores the watchlist; the item of that symbol has country,
\* industry and sector null, and every other item carries what its profile says
C28_BestEffortEnrichment ==
    Enriching =>
        /\ ws.stored = ws.last.result
        /\ {ws.stored.items[i].symbol : i \in DOMAIN ws.stored.items}
              = {strip_upper(ws.last.symbols[1][i]) : i \in DOMAIN ws.last.symbols[1]} \ {""}
        /\ \A i \in DOMAIN ws.stored.items :
              LET item == ws.stored.items[i]
              IN  IF LookupFails(item.symbol)
                  THEN item.country = None /\ item.industry = None /\ item.sector = None
                  ELSE ItemEnrichment(item) = ProfileSays(item.symbol)

\* C28 witness: an update stored two items, one whose lookup failed and one enriched
C28_Witness ==
    /\ Enriching
    /\ ws.last.op = "update"
    /\ \E i, j \in DOMAIN ws.stored.items :
          /\ LookupFails(ws.stored.items[i].symbol)
          /\ ~LookupFails(ws.stored.items[j].symbol)
          /\ ws.stored.items[j].sector # None

\* the order of the tokens as strings: the seconds first, then "+00:00" before "Z"
TokenLe(a, b) ==
    \/ a.sec < b.sec
    \/ a.sec = b.sec /\ (a.tz = b.tz \/ (a.tz = "+00:00" /\ b.tz = "Z"))

\* C29: updated_utc is a version token: every mutation leaves it not smaller than before
\* and not smaller than created_utc, and two successive mutations never carry the same
\* token
C29_VersionToken ==
    \A i \in 2..Len(ws.tokens) :
        /\ TokenLe(ws.tokens[i - 1], ws.tokens[i])
        /\ TokenLe(ws.stored.created_utc, ws.tokens[i])
        /\ ws.tokens[i] # ws.tokens[i - 1]


\* the exception session.get's last answer stands for
ErrorOf(resp) ==
    IF resp.error = "" THEN [type |-> "HTTPError", status |-> resp.status]
    ELSE [type |-> resp.error, status |-> 0]

\* the call used every allowed attempt, and the last one failed transiently too
Exhausted ==
    /\ svc = "finnhub" /\ Ended /\ Missed
    /\ NetCount(events) = (IF max_retries > 1 THEN max_retries ELSE 1)
    /\ IsTransient(ErrorOf(response))

\* C31: a call whose allowed attempts all failed returns no value: it raises the error
\* of its last attempt, a rate-limit (429) or an unavailability (5xx, timeout,
\* connection) error
C31_LastErrorSurfaced ==
    Exhausted =>
        /\ outcome.kind = "raise"
        /\ outcome.value = None
        /\ outcome.exc = ErrorOf(response)

\* C31 witness: three attempts, the earlier ones answered 429 and the last one 500
C31_Witness ==
    /\ Exhausted /\ max_retries = DefaultMaxRetries /\ all429
    /\ response.status = 500
    /\ outcome.exc = [type |-> "HTTPError", status |-> 500]


\* the thread is inside a read or a write of its cache map
InMap(t) == proc[t].pc \in {"get", "set"}

\* C32: no two threads are inside a read or write of the same cache map at once, a thread
\* inside one holds that map's lock, and no thread holds a lock during a network call
\* or a retry sleep
C32_CacheMutex ==
    /\ \A t, u \in DOMAIN proc :
          (t # u /\ InMap(t) /\ InMap(u)) => proc[t].cache # proc[u].cache
    /\ \A t \in DOMAIN proc : InMap(t) => proc[t].holds # {}
    /\ \A t \in DOMAIN proc : proc[t].pc \in {"net", "sleep", "done"} => proc[t].holds = {}

\* C32 witness: a thread is inside a store of a cache map while another thread, which
\* wants the same map, waits outside
C32_Witness ==
    \E t, u \in DOMAIN proc :
        /\ t # u /\ proc[t].cache = proc[u].cache
        /\ proc[t].pc = "set" /\ proc[u].pc \in {"start", "store"}


\* the call fetched a payload and reached _cache_set with ttl_seconds <= 0
SetWithoutTtl ==
    svc = "finnhub" /\ Ended /\ Missed /\ outcome.kind = "return" /\ call.ttl <= 0

\* C33: _cache_set with ttl_seconds <= 0 changes nothing: the map holds what it held
\* when the call began, entry for entry, but for the expired entry of the call's own
\* key that the lookup (not the store) removed
C33_SetWithoutTtlIsNoOp ==
    SetWithoutTtl =>
        /\ DOMAIN fhCache \subseteq DOMAIN call.cache0
        /\ \A k \in DOMAIN fhCache : fhCache[k] = call.cache0[k]
        /\ \A k \in DOMAIN call.cache0 \ DOMAIN fhCache :
              k = call.key /\ call.cache0[k].expires_at <= call.at

\* C33 witness: the key had a live entry, the call fetched another payload, and the
\* entry is still the old one
C33_Witness ==
    /\ SetWithoutTtl
    /\ call.key \in DOMAIN fhCache
    /\ fhCache[call.key].expires_at > now
    /\ fhCache[call.key].value # outcome.value


\* get_company_profile2 failed as not-found: its _get_json call gave the empty object
ProfileNotFound ==
    /\ svc = "finnhub" /\ Ended /\ call.path = "/stock/profile2"
    /\ outcome = Returned("{}")
    /\ profile2_result(outcome).exc.type = "ValueError"

\* C34: a not-found failure is not cached: after get_company_profile2 has failed as
\* not-found the cache holds no entry for the request, so every not-found answer comes
\* from a network call
C34_NotFoundNotCached ==
    ProfileNotFound => (call.key \notin DOMAIN fhCache /\ Missed)


\* the non-secret parameters of a params dict, as a map
SafeMap(d) == [k \in {it[1] : it \in SafeItems(d)} |-> dict_get(d, k)]

\* C35: requests that differ get different keys: two _cache_key computations on the
\* same path whose non-secret params differ, in a name or in a value, give different
\* strings, also when a value holds '&' or '='
C35_DistinctKeys ==
    (kOut # NoKeys /\ SafeMap(kIn.a) # SafeMap(kIn.b)) => kOut.a # kOut.b


\* the request served last
LastServed == proc[Len(proc)]

\* the users that created a watchlist of that id
CreatorsOf(id) ==
    {proc[i].user_id : i \in {j \in DOMAIN proc : proc[j].op = "create" /\ proc[j].watchlist_id = id}}

\* the watchlists the user created and has not deleted
LiveOf(user_id) ==
    {proc[i].watchlist_id : i \in {j \in DOMAIN proc : proc[j].op = "create" /\ proc[j].user_id = user_id}}
        \ {proc[i].watchlist_id : i \in {j \in DOMAIN proc : proc[j].op = "delete" /\ proc[j].ok}}

\* C36: watchlists are isolated by user: a request of user A returns only watchlists A
\* created, leaves every other user's watchlists as they were, and list_watchlists(A)
\* holds exactly the watchlists A created and has not deleted
C36_UserIsolation ==
    (svc = "store" /\ proc # <<>>) =>
        /\ \A w \in LastServed.returned : CreatorsOf(w.id) = {LastServed.user_id}
        /\ \A u \in RepoUsers \ {LastServed.user_id} :
              entities_of(file.data, u) = entities_of(LastServed.before, u)
        /\ LastServed.op = "list" =>
              {w.id : w \in LastServed.returned} = LiveOf(LastServed.user_id)

\* C36 witness: a user lists its watchlists while the store holds a watchlist of the
\* other user
C36_Witness ==
    /\ svc = "store" /\ proc # <<>>
    /\ LastServed.op = "list"
    /\ LastServed.returned # {}
    /\ \E u \in RepoUsers \ {LastServed.user_id} : entities_of(file.data, u) # {}


\* C37: update_watchlist on an existing watchlist keeps id and created_utc, keeps the name
\* when name is None and the items when symbols is None; on a watchlist that does not
\* exist it returns None and leaves the store as it was
C37_UpdateFrame ==
    (svc = "watchlist" /\ ws.last.op = "update") =>
        IF ws.last.before = NoSuchWatchlist
        THEN ws.last.result = NoSuchWatchlist /\ ws.stored = ws.last.before
        ELSE /\ ws.last.result # NoSuchWatchlist
             /\ ws.stored = ws.last.result
             /\ ws.last.result.id = ws.last.before.id
             /\ ws.last.result.created_utc = ws.last.before.created_utc
             /\ ws.last.name = None => ws.last.result.name = ws.last.before.name
             /\ ws.last.symbols = NoSymbols => ws.last.result.items = ws.last.before.items

\* C37 witness: an update with neither name nor symbols of a watchlist that has items,
\* a second or more after it was created
C37_Witness ==
    /\ svc = "watchlist" /\ ws.last.op = "update"
    /\ ws.last.before # NoSuchWatchlist
    /\ ws.last.name = None /\ ws.last.symbols = NoSymbols
    /\ ws.last.before.items # <<>>
    /\ ws.last.result.updated_utc # ws.last.before.updated_utc


OtherOrder(symbols) == [i \in 1..Len(symbols) |-> symbols[Len(symbols) + 1 - i]]

\* the provider's answers to the fetches of the call in the opposite order: every symbol
\* gets the answer it got
OtherOrderAnswers(uniq, other, resps) ==
    [j \in 1..Len(other) |-> resps[CHOOSE i \in 1..Len(uniq) : uniq[i] = other[j]]]

\* the call of the state, had its symbols come in the opposite order
OtherOrderCall ==
    LET uniq == selected_symbols(nIn.symbols, nIn.symbol_filter, nIn.max_symbols)
        other == selected_symbols(OtherOrder(nIn.symbols), nIn.symbol_filter, nIn.max_symbols)
    IN  get_watchlist_news(newsOut.cache0, newsOut.at, OtherOrder(nIn.symbols), DefaultDays,
                           nIn.per_symbol_limit, nIn.total_limit, nIn.max_symbols,
                           nIn.symbol_filter, newsOut.version,
                           OtherOrderAnswers(uniq, other, nIn.resps))

\* C39: get_watchlist_news does not depend on the order of its symbols when the distinct
\* symbols are no more than max_symbols: the same symbols in another order, every symbol
\* answered alike by the provider, give the same result list
C39_OrderIndependent ==
    (/\ svc = "news"
     /\ newsOut.op = "get_watchlist_news"
     /\ newsOut.out.kind = "return"
     /\ Len(uniq_symbols(nIn.symbols, {})) <= nIn.max_symbols)
        => /\ OtherOrderCall.out.kind = "return"
           /\ OtherOrderCall.out.value = newsOut.out.value


====
